---- MODULE Spec2Model ----
(***************************************************************************)
(* RackOptix optimization core: the three optimizers (aisle width,         *)
(* elevation profile, slotting) and the engine pipeline that sequences     *)
(* them, modelled from rackoptix/backend/src.                              *)
(*                                                                         *)
(* Numbers.  The code computes in floats; the model computes the same      *)
(* expressions in exact rational arithmetic on scaled integers:            *)
(*   - aisle widths, bounds and increments are in ticks of 1/60 ft         *)
(*     (5 ticks = 1 inch), so that x * 12 and x / 12.0 are exact;          *)
(*   - product dimensions and the elevation options min_clearance and      *)
(*     min_beam_spacing are in tenths of an inch;                          *)
(*   - equipment.reach_height is in hundredths of a foot;                  *)
(*   - returned elevations are in units of 1/76200 ft (250 units = 1 mm    *)
(*     after the division by 304.8, 635 units = 0.1 in, 762 = 0.01 ft).    *)
(*   - metrics: pallet positions are counted in half pallets, ratios in    *)
(*     hundredths, and the slotting metrics in the units named at          *)
(*     SlottingMetrics;                                                    *)
(*   - the coordinates of placed racks are in units of 1/120 ft;           *)
(*   - accessibility scores are fractions [num, den], the slotting scores  *)
(*     are in units of 1 / (100 * D) for a common denominator D.           *)
(* int(x) of a non-negative x is the floor, written with \div.  The        *)
(* rounding of IEEE doubles is not represented.                            *)
(*                                                                         *)
(* Solvers.  A call of an exact solver (CP-SAT, SCIP) returns any          *)
(* assignment satisfying the constraints the code posted (the code accepts *)
(* OPTIMAL and FEASIBLE alike), or fails: infeasible, invalid model, no    *)
(* solution within the time budget, or a solver error.  The objectives are *)
(* AisleCpObjective and SlottingMipObjectiveFrom; AisleCpOptimal and       *)
(* SlottingMipOptimal are the assignments of status OPTIMAL.               *)
(***************************************************************************)
EXTENDS Integers, Sequences, FiniteSets, TLC

VARIABLES
    optimizer,          \* which optimizer's optimize() is being called, or "none"
    pc,                 \* position inside optimize(): call, exact, fallback, returned, raised
    layout,             \* the Layout: [id, facility_id, racks, aisles, metrics]
    products,           \* the product list
    equipment,          \* the Equipment: [reach_height, min_aisle_width, max_aisle_width]
    constraints,        \* the constraints dict handed to optimize()
    exactAttempts,      \* calls of _solve_with_cp / _solve_with_mip in this optimize()
    heuristicAttempts,  \* calls of _solve_with_heuristic in this optimize()
    exactFailed,        \* the exact attempt raised (caught by optimize's except clause)
    result,             \* the value the last optimize() returned
    path,               \* which attempt produced result: "none", "exact", "heuristic"
    facility,           \* optimize_layout's facility: [id, boundary]
    parameters,         \* optimize_layout's parameters dict
    stage,              \* position inside optimize_layout, or "idle"
    rackIndex,          \* racks already handled by the loop of _optimize_rack_elevations
    log,                \* the stages optimize_layout has entered, in order
    ret,                \* the value the last engine call returned
    call,               \* the last call of an engine entry point and its outcome
    calls,              \* the number of entry-point calls made so far
    rackCalls           \* the per-rack elevation calls begun, by rack position

optVars == <<optimizer, pc, layout, products, equipment, constraints,
             exactAttempts, heuristicAttempts, exactFailed, result, path>>

engVars == <<facility, parameters, stage, rackIndex, log, ret, call, calls,
             rackCalls>>

vars == <<optVars, engVars>>

----------------------------------------------------------------------------
(* Bounds of the model *)

MaxLevelsBound == 2     \* largest max_levels option tried
MaxProducts == 2        \* longest product list tried
MaxAisles == 1          \* most aisles in a layout handed to an optimizer
MaxRacks == 1           \* most racks in a layout handed to an optimizer
MaxCalls == 2           \* most entry-point calls made on one layout

----------------------------------------------------------------------------
(* Helpers *)

Max2(a, b) == IF a >= b THEN a ELSE b
Min2(a, b) == IF a <= b THEN a ELSE b

RECURSIVE SeqMax(_)
\* max(xs) of a non-empty sequence of numbers
SeqMax(xs) ==
    IF Len(xs) = 1 THEN xs[1] ELSE Max2(xs[1], SeqMax(Tail(xs)))

Last(s) == s[Len(s)]

RECURSIVE SeqProduct(_)
\* the sequences taking their i-th element from the i-th set of domains
SeqProduct(domains) ==
    IF domains = <<>> THEN {<<>>}
    ELSE { <<x>> \o rest : x \in Head(domains), rest \in SeqProduct(Tail(domains)) }

\* the dict {}
EmptyDict == [k \in {} |-> 0]

\* dict.get(key, default); a dict is a record holding the keys it has
Get(d, key, default) == IF key \in DOMAIN d THEN d[key] ELSE default

----------------------------------------------------------------------------
(* Elevation profile optimizer: algorithms/elevation_optimizer.py *)

UnitsPerMm == 250            \* 1 mm / 304.8 ft, in units of 1/76200 ft
UnitsPerTenthInch == 635     \* 0.1 in = 1/120 ft
UnitsPerHundredthFoot == 762 \* 0.01 ft

\* int(h * 25.4) for h given in tenths of an inch
InchesToMm(h10) == (h10 * 254) \div 100

\* int(max_height * 304.8) for max_height given in hundredths of a foot
FeetToMm(r100) == (r100 * 3048) \div 1000

ProductHeights(ps) == [i \in 1..Len(ps) |-> ps[i].height]

\* constraints.get(...) with the defaults 6.0 in, 12.0 in and 4
MinClearance(cons) == Get(cons, "min_clearance", 60)
MinBeamSpacing(cons) == Get(cons, "min_beam_spacing", 120)
MaxLevels(cons) == Get(cons, "max_levels", 4)

\* The constraint system _solve_with_cp posts on beam_1 .. beam_L (mm):
\* each variable in [min_beam_spacing_mm, max_height_mm], ascending order
\* between the variables, the product gap between consecutive beams (the
\* floor beam is the constant 0), and the top beam below max_height_mm.
ElevationCpSatisfies(b, L, heights, max_height, cons) ==
    LET max_height_mm == FeetToMm(max_height)
        min_clearance_mm == InchesToMm(MinClearance(cons))
        min_beam_spacing_mm == InchesToMm(MinBeamSpacing(cons))
        max_product_height_mm ==
            SeqMax([i \in 1..Len(heights) |-> InchesToMm(heights[i])])
        beam(i) == IF i = 0 THEN 0 ELSE b[i]
    IN  /\ \A i \in 1..L : min_beam_spacing_mm <= b[i] /\ b[i] <= max_height_mm
        /\ \A i \in 1..(L - 1) : beam(i) < beam(i + 1)
        /\ \A i \in 0..(L - 1) :
              beam(i + 1) - beam(i) >= max_product_height_mm + min_clearance_mm
        /\ beam(L) <= max_height_mm

\* Every solution the CP solver may return, as beam elevations in mm: the
\* assignments of beam_1 .. beam_L over the variables' domain that satisfy
\* the posted constraints.
ElevationCpSolutions(heights, max_height, cons) ==
    { b \in [1..MaxLevels(cons) ->
                InchesToMm(MinBeamSpacing(cons))..FeetToMm(max_height)] :
        ElevationCpSatisfies(b, MaxLevels(cons), heights, max_height, cons) }

\* result = [0.0] + [Value(beam_i) / 304.8]
ElevationCpResult(b) ==
    <<0>> \o [i \in 1..Len(b) |-> b[i] * UnitsPerMm]

\* level_height of the heuristic: the product height is added as it is
\* given (a number of inches) to the clearance converted to feet.
ElevationLevelHeight(heights, cons) ==
    LET min_clearance == MinClearance(cons) * UnitsPerTenthInch
        min_beam_spacing == MinBeamSpacing(cons) * UnitsPerTenthInch
        max_product_height == SeqMax(heights) * 12 * UnitsPerTenthInch
    IN  Max2(max_product_height + min_clearance, min_beam_spacing)

\* mutation of ElevationNumLevels: the level count without the cap at
\* max_levels
ElevationNumLevelsUncapped(heights, max_height, cons) ==
    (max_height * UnitsPerHundredthFoot) \div ElevationLevelHeight(heights, cons)

\* mutation of ElevationNumLevels: the level count without the cap at the
\* levels that fit below max_height
ElevationNumLevelsIgnoringReach(heights, max_height, cons) ==
    MaxLevels(cons)

\* num_levels = min(max_levels, int(max_height / level_height))
ElevationNumLevels(heights, max_height, cons) ==
    Min2(MaxLevels(cons),
         (max_height * UnitsPerHundredthFoot)
            \div ElevationLevelHeight(heights, cons))

\* elevations = [i * level_height for i in range(num_levels + 1)]
ElevationHeuristic(heights, max_height, cons) ==
    [i \in 1..(ElevationNumLevels(heights, max_height, cons) + 1) |->
        (i - 1) * ElevationLevelHeight(heights, cons)]

----------------------------------------------------------------------------
(* Aisle width optimizer: algorithms/aisle_optimizer.py *)

TicksPerInch == 60 \div 12
TicksPerFoot == 60

\* int(x * 12) for x given in ticks of 1/60 ft
FeetToInches(x) == x \div TicksPerInch

\* Python's round(n / d) for n >= 0, d > 0: nearest integer, ties to even
Round(n, d) ==
    LET q == n \div d
        r == n % d
    IN  IF 2 * r < d THEN q
        ELSE IF 2 * r > d THEN q + 1
        ELSE IF q % 2 = 0 THEN q ELSE q + 1

\* _get_adjacent_racks: _check_intersection draws np.random.random() < 0.3
\* for every rack, so one call may return any sub-list of layout.racks.
\* The possible outcomes of calling it once per aisle: the adjacent racks
\* (by position in layout.racks) of each aisle.
AdjacentRacksChoices(lay) ==
    [1..Len(lay.aisles) -> SUBSET (1..Len(lay.racks))]

\* The constraints _solve_with_cp posts on the width variable (inches) of
\* one aisle, given the racks found adjacent to it.
AisleCpSatisfies(w, aisle, adjacent, lay, equip, cons) ==
    LET min_width_inches ==
            FeetToInches(Get(cons, "min_aisle_width", equip.min_aisle_width))
        max_width_inches ==
            FeetToInches(Get(cons, "max_aisle_width", equip.max_aisle_width))
        increment_inches ==
            FeetToInches(Get(cons, "aisle_width_increment", 30))
    IN  /\ min_width_inches <= w /\ w <= max_width_inches
        /\ w % increment_inches = 0
        /\ aisle.type = "main" => w >= min_width_inches + 12
        /\ aisle.type = "cross" => w >= min_width_inches
        /\ aisle.type = "staging" => w >= min_width_inches + 24
        /\ \A r \in adjacent :
              /\ lay.racks[r].rack_type_id \in {"drive-in", "push-back"}
                    => w >= min_width_inches + 12
              /\ lay.racks[r].rack_type_id = "pallet-flow"
                    => w >= min_width_inches + 6

\* Every solution the CP solver may return for the adjacency adj drawn
\* while the model was built: one width in inches per aisle, each from the
\* variable's domain [min_width_inches, max_width_inches] (every posted
\* constraint bears on one aisle's variable alone).  A zero
\* increment_inches makes the modulo constraint invalid: no solution.
AisleCpSolutions(lay, adj, equip, cons) ==
    LET lo == FeetToInches(Get(cons, "min_aisle_width", equip.min_aisle_width))
        hi == FeetToInches(Get(cons, "max_aisle_width", equip.max_aisle_width))
        inc == FeetToInches(Get(cons, "aisle_width_increment", 30))
    IN  IF inc = 0 /\ Len(lay.aisles) > 0 THEN {}
        ELSE SeqProduct([i \in 1..Len(lay.aisles) |->
                { w \in lo..hi :
                    AisleCpSatisfies(w, lay.aisles[i], adj[i], lay, equip, cons) }])

\* weight of an aisle in the accessibility term, by aisle type
AisleAccessibilityWeight(aisle) ==
    IF aisle.type = "main" THEN -50
    ELSE IF aisle.type = "staging" THEN -30
    ELSE -10

RECURSIVE AisleCpObjectiveUpTo(_, _, _, _, _)
\* sum(objective_terms) over the first n aisles for the widths w (inches):
\* the density term width_var * int(aisle_length * 10), with the aisle
\* length 50.0 _calculate_aisle_length returns for a path that is a dict,
\* and the accessibility term weight * (max_width_inches - width_var)
AisleCpObjectiveUpTo(n, w, lay, equip, cons) ==
    IF n = 0 THEN 0
    ELSE LET max_width_inches ==
                 FeetToInches(Get(cons, "max_aisle_width", equip.max_aisle_width))
             density == IF Get(cons, "optimize_for_density", TRUE)
                        THEN w[n] * (50 * 10) ELSE 0
             accessibility ==
                 IF Get(cons, "optimize_for_accessibility", TRUE)
                 THEN AisleAccessibilityWeight(lay.aisles[n])
                         * (max_width_inches - w[n])
                 ELSE 0
         IN  density + accessibility
                + AisleCpObjectiveUpTo(n - 1, w, lay, equip, cons)

\* the value model.Minimize is given for the widths w
AisleCpObjective(w, lay, equip, cons) ==
    AisleCpObjectiveUpTo(Len(lay.aisles), w, lay, equip, cons)

\* the solutions of status OPTIMAL: those of least objective value
AisleCpOptimal(lay, adj, equip, cons) ==
    LET sols == AisleCpSolutions(lay, adj, equip, cons)
    IN  { w \in sols :
            \A v \in sols : AisleCpObjective(w, lay, equip, cons)
                                <= AisleCpObjective(v, lay, equip, cons) }

\* result = [{"id": aisle.id, "width": Value(var) / 12.0}]
AisleCpResult(lay, w) ==
    [i \in 1..Len(lay.aisles) |->
        [id |-> lay.aisles[i].id, width |-> w[i] * TicksPerInch]]

RECURSIVE AdjacentAdjustment(_, _)
\* the sum the heuristic adds to base_width over the adjacent racks
AdjacentAdjustment(adjacent, lay) ==
    IF adjacent = {} THEN 0
    ELSE LET r == CHOOSE x \in adjacent : TRUE
             t == lay.racks[r].rack_type_id
         IN  (IF t \in {"drive-in", "push-back"} THEN TicksPerFoot
              ELSE IF t = "pallet-flow" THEN TicksPerFoot \div 2
              ELSE 0)
             + AdjacentAdjustment(adjacent \ {r}, lay)

\* mutation of AisleHeuristicWidth: the density adjustment takes a whole
\* foot off instead of half a foot
AisleHeuristicWidthDenser(aisle, adjacent, lay, equip, cons) ==
    LET min_aisle_width == Get(cons, "min_aisle_width", equip.min_aisle_width)
        max_aisle_width == Get(cons, "max_aisle_width", equip.max_aisle_width)
        aisle_width_increment == Get(cons, "aisle_width_increment", 30)
        optimize_for_density == Get(cons, "optimize_for_density", TRUE)
        by_type ==
            IF aisle.type = "main" THEN min_aisle_width + 2 * TicksPerFoot
            ELSE IF aisle.type = "cross" THEN min_aisle_width + TicksPerFoot
            ELSE IF aisle.type = "staging" THEN min_aisle_width + 3 * TicksPerFoot
            ELSE min_aisle_width + TicksPerFoot
        with_racks == by_type + AdjacentAdjustment(adjacent, lay)
        base_width ==
            IF optimize_for_density
            THEN Max2(min_aisle_width, with_racks - TicksPerFoot)
            ELSE Min2(max_aisle_width, with_racks + TicksPerFoot)
        width == Round(base_width, aisle_width_increment) * aisle_width_increment
    IN  Max2(min_aisle_width, Min2(max_aisle_width, width))

\* The width _solve_with_heuristic gives one aisle, in ticks.
AisleHeuristicWidth(aisle, adjacent, lay, equip, cons) ==
    LET min_aisle_width == Get(cons, "min_aisle_width", equip.min_aisle_width)
        max_aisle_width == Get(cons, "max_aisle_width", equip.max_aisle_width)
        aisle_width_increment == Get(cons, "aisle_width_increment", 30)
        optimize_for_density == Get(cons, "optimize_for_density", TRUE)
        by_type ==
            IF aisle.type = "main" THEN min_aisle_width + 2 * TicksPerFoot
            ELSE IF aisle.type = "cross" THEN min_aisle_width + TicksPerFoot
            ELSE IF aisle.type = "staging" THEN min_aisle_width + 3 * TicksPerFoot
            ELSE min_aisle_width + TicksPerFoot
        with_racks == by_type + AdjacentAdjustment(adjacent, lay)
        base_width ==
            IF optimize_for_density
            THEN Max2(min_aisle_width, with_racks - TicksPerFoot \div 2)
            ELSE Min2(max_aisle_width, with_racks + TicksPerFoot)
        width == Round(base_width, aisle_width_increment) * aisle_width_increment
    IN  Max2(min_aisle_width, Min2(max_aisle_width, width))

AisleHeuristic(lay, adj, equip, cons) ==
    [i \in 1..Len(lay.aisles) |->
        [id |-> lay.aisles[i].id,
         width |-> AisleHeuristicWidth(lay.aisles[i], adj[i], lay, equip, cons)]]

----------------------------------------------------------------------------
(* Slotting optimizer: algorithms/slotting_optimizer.py *)

\* Location.dimensions of every enumerated location (tenths of an inch)
LocationLength == 480
LocationWidth == 400
LocationHeight == 60

\* _calculate_location_accessibility as an exact fraction num / den:
\* base_accessibility * level_factor * bay_factor with
\*   level_factor = 1 - (level / 5) * 0.8        = (25 - 4 * level) / 25
\*   bay_position = bay / max(1, total_bays - 1)  = bay / d
\*   bay_factor   = 1 - 0.2 * (1 - 2 * |bay_position - 0.5|)
\*                                                = (4 * d + |2 * bay - d|) / (5 * d)
LocationAccessibility(rack, bay, level) ==
    LET base_accessibility ==
            IF rack.rack_type_id = "selective" THEN 90
            ELSE IF rack.rack_type_id \in {"drive-in", "push-back"} THEN 70
            ELSE IF rack.rack_type_id = "pallet-flow" THEN 80
            ELSE 75
        d == Max2(1, rack.bays - 1)
        dist == IF 2 * bay >= d THEN 2 * bay - d ELSE d - 2 * bay
    IN  [num |-> base_accessibility * (25 - 4 * level) * (4 * d + dist),
         den |-> 100 * 25 * 5 * d]

\* the locations _get_all_locations creates for one rack, bay-major
RackLocations(rack) ==
    LET levels == Get(rack.configuration, "beam_levels", 3)
        n == IF levels > 0 THEN rack.bays * levels ELSE 0
    IN  [k \in 1..n |->
            LET bay == (k - 1) \div levels
                level == (k - 1) % levels
            IN  [id |-> <<rack.id, bay, level>>,
                 rack_id |-> rack.id,
                 level |-> level,
                 dimensions |-> [length |-> LocationLength,
                                 width |-> LocationWidth,
                                 height |-> LocationHeight],
                 properties |-> [rack_type |-> rack.rack_type_id,
                                 accessibility |->
                                     LocationAccessibility(rack, bay, level)]]]

RECURSIVE GetAllLocations(_)
\* _get_all_locations: the racks' locations in layout.racks order
GetAllLocations(racks) ==
    IF racks = <<>> THEN <<>>
    ELSE RackLocations(Head(racks)) \o GetAllLocations(Tail(racks))

\* mutation of ProductFitsLocation: the height is not compared
ProductFitsLocationIgnoringHeight(product, location) ==
    \/ /\ product.length <= location.dimensions.length
       /\ product.width <= location.dimensions.width
    \/ /\ product.width <= location.dimensions.length
       /\ product.length <= location.dimensions.width

\* _product_fits_location: as given or rotated in the plane
ProductFitsLocation(product, location) ==
    LET fits_normal ==
            /\ product.length <= location.dimensions.length
            /\ product.width <= location.dimensions.width
            /\ product.height <= location.dimensions.height
        fits_rotated ==
            /\ product.width <= location.dimensions.length
            /\ product.length <= location.dimensions.width
            /\ product.height <= location.dimensions.height
    IN  fits_normal \/ fits_rotated

\* _check_weight_limit: a location without a weight_limit property accepts
\* every weight
CheckWeightLimit(product, location) ==
    IF "weight_limit" \notin DOMAIN location.properties THEN TRUE
    ELSE product.weight <= location.properties.weight_limit

\* mutation of SlottingMipSatisfies: without the constraint that a location
\* takes at most one product
SlottingMipSatisfiesSharedLocations(x, prods, locations, cons) ==
    /\ \A p \in 1..Len(prods) :
          Cardinality({l \in 1..Len(locations) : <<p, l>> \in x}) = 1
    /\ Get(cons, "respect_product_dimensions", TRUE) =>
          \A pl \in x : ProductFitsLocation(prods[pl[1]], locations[pl[2]])
    /\ Get(cons, "respect_weight_limits", TRUE) =>
          \A pl \in x : CheckWeightLimit(prods[pl[1]], locations[pl[2]])

\* The constraints _solve_with_mip posts on x[p][l], for x given as the
\* set of pairs <<p, l>> with x[p][l] = 1.
SlottingMipSatisfies(x, prods, locations, cons) ==
    /\ \A p \in 1..Len(prods) :
          Cardinality({l \in 1..Len(locations) : <<p, l>> \in x}) = 1
    /\ \A l \in 1..Len(locations) :
          Cardinality({p \in 1..Len(prods) : <<p, l>> \in x}) <= 1
    /\ Get(cons, "respect_product_dimensions", TRUE) =>
          \A pl \in x : ProductFitsLocation(prods[pl[1]], locations[pl[2]])
    /\ Get(cons, "respect_weight_limits", TRUE) =>
          \A pl \in x : CheckWeightLimit(prods[pl[1]], locations[pl[2]])

\* Every solution the MIP solver may return.  The first constraint gives
\* every product one location, so the candidates are the maps from products
\* to locations.
SlottingMipSolutions(prods, locations, cons) ==
    { x \in { {<<p, f[p]>> : p \in 1..Len(prods)} :
                f \in [1..Len(prods) -> 1..Len(locations)] } :
        SlottingMipSatisfies(x, prods, locations, cons) }

RECURSIVE Gcd(_, _)
Gcd(a, b) == IF b = 0 THEN a ELSE Gcd(b, a % b)

RECURSIVE AccessibilityDen(_)
\* a denominator common to the accessibility of all the locations
AccessibilityDen(locations) ==
    IF locations = <<>> THEN 1
    ELSE LET den == Head(locations).properties.accessibility.den
             rest == AccessibilityDen(Tail(locations))
         IN  (den \div Gcd(den, rest)) * rest

\* scores[p][l] as an exact number, in units of 1 / (100 * D) for D a
\* multiple of the accessibility's denominator:
\*   velocity_weighting * velocity_score
\*      + accessibility_weighting * accessibility_score
\* with velocity_score = 0.8 + 0.2 a (class A), 0.5 + 0.3 a (class B),
\* 0.2 + 0.2 a (any other class) for the location's accessibility a, which
\* is the accessibility_score too.  The weights are in tenths.  With
\* optimize_for_throughput the sum has 0.2 * throughput_score more, which
\* is 0 for products of monthly_throughput 0, the dataclass default.
SlottingScore(product, location, cons, D) ==
    LET accessibility == location.properties.accessibility
        a == accessibility.num * (D \div accessibility.den)
        velocity_score ==
            IF product.velocity_class = "A" THEN 8 * D + 2 * a
            ELSE IF product.velocity_class = "B" THEN 5 * D + 3 * a
            ELSE 2 * D + 2 * a
    IN  Get(cons, "velocity_weighting", 7) * velocity_score
           + Get(cons, "accessibility_weighting", 3) * 10 * a

RECURSIVE SlottingMipObjectiveFrom(_, _, _, _, _)
\* the objective for x: the sum of scores[p][l] over the pairs with
\* x[p][l] = 1, products p, p + 1, ..
SlottingMipObjectiveFrom(p, x, prods, locations, cons) ==
    IF p > Len(prods) THEN 0
    ELSE LET l == CHOOSE l \in 1..Len(locations) : <<p, l>> \in x
         IN  SlottingScore(prods[p], locations[l], cons,
                           AccessibilityDen(locations))
                + SlottingMipObjectiveFrom(p + 1, x, prods, locations, cons)

\* the solutions of status OPTIMAL: those of greatest objective value
SlottingMipOptimal(prods, locations, cons) ==
    LET sols == SlottingMipSolutions(prods, locations, cons)
    IN  { x \in sols :
            \A y \in sols :
                SlottingMipObjectiveFrom(1, y, prods, locations, cons)
                    <= SlottingMipObjectiveFrom(1, x, prods, locations, cons) }

RECURSIVE SlottingMipResult(_, _, _, _)
\* the result list: products in order, one entry per pair with x[p][l] = 1
SlottingMipResult(x, prods, locations, p) ==
    IF p > Len(prods) THEN <<>>
    ELSE LET l == CHOOSE l \in 1..Len(locations) : <<p, l>> \in x
         IN  <<[product_id |-> prods[p].id,
                location_id |-> locations[l].id,
                quantity |-> 1]>>
             \o SlottingMipResult(x, prods, locations, p + 1)

\* velocity classes compare as strings: "A" < "B" < "C"
ClassOrder(c) == IF c = "A" THEN 1 ELSE IF c = "B" THEN 2 ELSE 3

\* key(a) > key(b) for the two sorts of the heuristic
ProductKeyGreater(a, b) == ClassOrder(a.velocity_class) > ClassOrder(b.velocity_class)
LocationKeyGreater(a, b) ==
    a.properties.accessibility.num * b.properties.accessibility.den
        > b.properties.accessibility.num * a.properties.accessibility.den

\* sorted(s, key=..., reverse=True): descending by key, elements of equal
\* key in their original order.  greater holds the pairs <<i, j>> with
\* key(s[i]) > key(s[j]); element i lands after the elements of greater key
\* and the earlier elements of equal key.
SortedDescending(s, greater) ==
    LET position(i) ==
            1 + Cardinality({ j \in 1..Len(s) :
                                \/ <<j, i>> \in greater
                                \/ <<i, j>> \notin greater /\ j < i })
    IN  [k \in 1..Len(s) |-> s[CHOOSE i \in 1..Len(s) : position(i) = k]]

\* the products by velocity_class, descending
SortedProducts(prods) ==
    SortedDescending(prods,
        { ij \in (1..Len(prods)) \X (1..Len(prods)) :
            ProductKeyGreater(prods[ij[1]], prods[ij[2]]) })

\* the locations by accessibility score, descending
SortedLocations(locations) ==
    SortedDescending(locations,
        { ij \in (1..Len(locations)) \X (1..Len(locations)) :
            LocationKeyGreater(locations[ij[1]], locations[ij[2]]) })

\* first location in sorted order that is free and, when dimensions are
\* respected, fits; 0 when there is none
FirstFreeLocation(product, sorted_locations, assigned_locations, cons) ==
    LET ok == { l \in 1..Len(sorted_locations) :
                  /\ sorted_locations[l].id \notin assigned_locations
                  /\ Get(cons, "respect_product_dimensions", TRUE)
                        => ProductFitsLocation(product, sorted_locations[l]) }
    IN  IF ok = {} THEN 0 ELSE CHOOSE l \in ok : \A m \in ok : l <= m

RECURSIVE SlottingGreedy(_, _, _, _)
\* the assignment loop over sorted_products
SlottingGreedy(sorted_products, sorted_locations, assigned_locations, cons) ==
    IF sorted_products = <<>> THEN <<>>
    ELSE LET product == Head(sorted_products)
             l == FirstFreeLocation(product, sorted_locations,
                                    assigned_locations, cons)
         IN  IF l = 0
             THEN SlottingGreedy(Tail(sorted_products), sorted_locations,
                                 assigned_locations, cons)
             ELSE <<[product_id |-> product.id,
                     location_id |-> sorted_locations[l].id,
                     quantity |-> 1]>>
                  \o SlottingGreedy(Tail(sorted_products), sorted_locations,
                                    assigned_locations \cup {sorted_locations[l].id},
                                    cons)

SlottingHeuristic(prods, locations, cons) ==
    IF locations = <<>> \/ prods = <<>> THEN <<>>
    ELSE SlottingGreedy(SortedProducts(prods), SortedLocations(locations),
                        {}, cons)

----------------------------------------------------------------------------
(* The engine: core/engine.py *)

\* _create_initial_layout: a Layout with a fresh id, no racks, no aisles
\* and metrics = {}
NewLayout(facility_id) ==
    [id |-> "layout", facility_id |-> facility_id, racks |-> <<>>,
     aisles |-> <<>>, metrics |-> EmptyDict]

\* the local variable layout before _create_initial_layout has run
NoLayout ==
    [id |-> "", facility_id |-> "", racks |-> <<>>, aisles |-> <<>>,
     metrics |-> EmptyDict]

\* aisle_width = max(equipment.min_aisle_width, 10), in ticks
PlacementAisleWidth(equip) == Max2(equip.min_aisle_width, 10 * TicksPerFoot)

\* num_aisles = max(1, int(width * 0.8 / (2 * rack_depth + aisle_width)))
\* with rack_depth = 48
NumAisles(boundary, equip) ==
    Max2(1, (boundary.width * 8 * TicksPerFoot)
               \div (10 * (2 * 48 * TicksPerFoot + PlacementAisleWidth(equip))))

\* racks_per_aisle = max(1, int(depth * 0.8 / (rack_length + aisle_width)))
\* with rack_length = 96
RacksPerAisle(boundary, equip) ==
    Max2(1, (boundary.depth * 8 * TicksPerFoot)
               \div (10 * (96 * TicksPerFoot + PlacementAisleWidth(equip))))

\* coordinates of the placement are in units of 1/120 ft, so that half an
\* aisle width given in ticks is a whole number
PlacementUnitsPerFoot == 2 * TicksPerFoot

\* rack_location["coordinates"][0]: the ring of the rack's footprint, a
\* rectangle of rack_depth = 48 by rack_length = 96 around (rack_x, rack_y),
\* for a boundary whose least x and y are 0:
\*   start_x = min_x + (width - usable_width) / 2 = 0.1 * width
\*   aisle_x = start_x + aisle_idx * (2 * rack_depth + aisle_width) + rack_depth
\*   rack_x  = aisle_x + side * (aisle_width / 2 + rack_depth / 2)
\*   rack_y  = start_y + rack_idx * (rack_length + 10)
RackFootprint(boundary, equip, aisle_idx, side, rack_idx) ==
    LET u == PlacementUnitsPerFoot
        aisle_width == 2 * PlacementAisleWidth(equip)
        start_x == (boundary.width * u) \div 10
        start_y == (boundary.depth * u) \div 10
        aisle_x == start_x + aisle_idx * (2 * 48 * u + aisle_width) + 48 * u
        rack_x == aisle_x + side * (aisle_width \div 2 + 24 * u)
        rack_y == start_y + rack_idx * (96 + 10) * u
    IN  << <<rack_x - 24 * u, rack_y - 48 * u>>,
           <<rack_x + 24 * u, rack_y - 48 * u>>,
           <<rack_x + 24 * u, rack_y + 48 * u>>,
           <<rack_x - 24 * u, rack_y + 48 * u>>,
           <<rack_x - 24 * u, rack_y - 48 * u>> >>

\* the racks list: per aisle, the left side then the right side, each side
\* racks_per_aisle selective racks of 3 bays
PlacementRacks(boundary, equip) ==
    LET per == RacksPerAisle(boundary, equip)
    IN  [k \in 1..(NumAisles(boundary, equip) * 2 * per) |->
            LET aisle_idx == (k - 1) \div (2 * per)
                side == IF ((k - 1) \div per) % 2 = 0 THEN -1 ELSE 1
                rack_idx == (k - 1) % per
            IN  [id |-> <<"rack", aisle_idx, side, rack_idx>>,
                 rack_type_id |-> "selective",
                 location |-> RackFootprint(boundary, equip, aisle_idx, side,
                                            rack_idx),
                 height |-> 20,
                 bays |-> 3,
                 configuration |-> [beam_levels |-> 3, beam_height |-> 6,
                                    first_beam_height |-> 6]]]

\* the aisles list: the main aisles, then max(1, int(racks_per_aisle / 5))
\* cross aisles, all of width aisle_width
PlacementAisles(boundary, equip) ==
    LET n == NumAisles(boundary, equip)
        num_cross_aisles == Max2(1, RacksPerAisle(boundary, equip) \div 5)
    IN  [k \in 1..(n + num_cross_aisles) |->
            IF k <= n
            THEN [id |-> <<"aisle", k - 1>>,
                  width |-> PlacementAisleWidth(equip), type |-> "main"]
            ELSE [id |-> <<"cross", k - n - 1>>,
                  width |-> PlacementAisleWidth(equip), type |-> "cross"]]

\* _optimize_rack_placement reads facility.boundary.coordinates: Facility
\* declares boundary a dict, which has no such attribute (AttributeError);
\* an empty boundary is returned from before the attribute is read.
PlacementRaises(fac) == fac.boundary.kind = "dict"

\* _optimize_rack_placement when it returns
RackPlacement(lay, fac, equip) ==
    IF fac.boundary.kind = "empty" THEN lay
    ELSE [lay EXCEPT !.racks = PlacementRacks(fac.boundary, equip),
                     !.aisles = PlacementAisles(fac.boundary, equip)]

\* aisle_params of _optimize_aisle_widths; the weights are in tenths
AisleParams(equip, params) ==
    [min_aisle_width |-> equip.min_aisle_width,
     max_aisle_width |-> equip.max_aisle_width,
     optimize_for_density |-> Get(params, "storage_density_weight", 6) > 5,
     optimize_for_accessibility |-> Get(params, "accessibility_weight", 4) > 3]

\* elevation_params of _optimize_rack_elevations
ElevationParams(params) ==
    [min_clearance |-> Get(params, "min_clearance", 60),
     min_beam_spacing |-> Get(params, "min_beam_spacing", 120),
     max_levels |-> Get(params, "max_levels", 4)]

\* Every value AisleWidthOptimizer.optimize may return: a solver solution,
\* or the heuristic's result after the solver failed.
AisleOptimizeResults(lay, equip, cons) ==
    LET choices == AdjacentRacksChoices(lay)
        exact == UNION { { AisleCpResult(lay, w) :
                             w \in AisleCpSolutions(lay, adj, equip, cons) } :
                         adj \in choices }
        heuristic ==
            IF Get(cons, "aisle_width_increment", 30) = 0 /\ lay.aisles # <<>>
            THEN {}
            ELSE { AisleHeuristic(lay, adj, equip, cons) : adj \in choices }
    IN  exact \cup heuristic

\* Every value ElevationProfileOptimizer.optimize may return
ElevationOptimizeResults(prods, equip, cons) ==
    IF prods = <<>> THEN {<<>>}
    ELSE { ElevationCpResult(b) :
             b \in ElevationCpSolutions(ProductHeights(prods),
                                        equip.reach_height, cons) }
         \cup (IF ElevationLevelHeight(ProductHeights(prods), cons) = 0 THEN {}
               ELSE { ElevationHeuristic(ProductHeights(prods),
                                         equip.reach_height, cons) })

\* ElevationProfileOptimizer.optimize may raise: the heuristic divides by a
\* zero level_height
ElevationOptimizeRaises(prods, cons) ==
    prods # <<>> /\ ElevationLevelHeight(ProductHeights(prods), cons) = 0

\* the loop writing the optimized widths into layout.aisles: each entry
\* goes to the first aisle carrying its id
UpdateAisleWidths(aisles, optimized_aisles) ==
    [i \in 1..Len(aisles) |->
        LET first == \A j \in 1..(i - 1) : aisles[j].id # aisles[i].id
            hits == { k \in 1..Len(optimized_aisles) :
                        optimized_aisles[k].id = aisles[i].id }
        IN  IF first /\ hits # {}
            THEN [aisles[i] EXCEPT
                    !.width = optimized_aisles[CHOOSE k \in hits :
                                                 \A m \in hits : m <= k].width]
            ELSE aisles[i]]

\* rack.configuration['beam_elevations'] = beam_elevations
\* rack.configuration['beam_levels'] = len(beam_elevations) - 1
SetBeamElevations(rack, beam_elevations) ==
    [rack EXCEPT !.configuration =
        [key \in DOMAIN rack.configuration \cup {"beam_elevations", "beam_levels"} |->
            IF key = "beam_elevations" THEN beam_elevations
            ELSE IF key = "beam_levels" THEN Len(beam_elevations) - 1
            ELSE rack.configuration[key]]]

RECURSIVE PalletPositionsMobileAsSelective(_)
\* mutation of PalletPositions: a mobile rack counts as a selective one
PalletPositionsMobileAsSelective(racks) ==
    IF racks = <<>> THEN 0
    ELSE LET rack == Head(racks)
             levels == Get(rack.configuration, "beam_levels", 3)
             depth2 == IF rack.rack_type_id = "selective" THEN 2
                       ELSE IF rack.rack_type_id = "drive-in" THEN 8
                       ELSE IF rack.rack_type_id = "push-back" THEN 6
                       ELSE IF rack.rack_type_id = "pallet-flow" THEN 12
                       ELSE 2
         IN  rack.bays * levels * depth2
                + PalletPositionsMobileAsSelective(Tail(racks))

RECURSIVE PalletPositions(_)
\* pallet_positions of _calculate_layout_metrics, counted in half pallets
\* (a mobile rack counts bays * levels * 1.5)
PalletPositions(racks) ==
    IF racks = <<>> THEN 0
    ELSE LET rack == Head(racks)
             levels == Get(rack.configuration, "beam_levels", 3)
             depth2 == IF rack.rack_type_id = "selective" THEN 2
                       ELSE IF rack.rack_type_id = "drive-in" THEN 8
                       ELSE IF rack.rack_type_id = "push-back" THEN 6
                       ELSE IF rack.rack_type_id = "pallet-flow" THEN 12
                       ELSE IF rack.rack_type_id = "mobile" THEN 3
                       ELSE 2
         IN  rack.bays * levels * depth2 + PalletPositions(Tail(racks))

\* the dict _calculate_layout_metrics returns: pallet_positions in half
\* pallets, the ratios in hundredths, throughput_capacity in twentieths
LayoutMetrics(lay) ==
    [pallet_positions |-> PalletPositions(lay.racks),
     storage_density |-> Min2(95, 50 + Len(lay.racks) * 5),
     space_utilization |-> Min2(90, 40 + Len(lay.racks) * 4),
     travel_distance |-> Max2(20, 100 - Len(lay.aisles) * 5),
     accessibility_score |-> Min2(95, 60 + Len(lay.aisles) * 3),
     throughput_capacity |-> Min2(4000, 1000 + PalletPositions(lay.racks))]

\* parameters = {...} of optimize_rack_elevations when the caller passes None
DefaultElevationParameters ==
    [min_clearance |-> 60, min_beam_spacing |-> 120, max_levels |-> 4]

\* parameters = {...} of optimize_aisle_widths when the caller passes None
DefaultAisleParameters(equip) ==
    [min_aisle_width |-> equip.min_aisle_width,
     max_aisle_width |-> equip.max_aisle_width,
     optimize_for_density |-> TRUE,
     optimize_for_accessibility |-> TRUE]

\* parameters = {...} of optimize_slotting when the caller passes None; the
\* weightings are in tenths
DefaultSlottingParameters ==
    [velocity_weighting |-> 7, accessibility_weighting |-> 3,
     optimize_for_throughput |-> FALSE]

\* next((r for r in layout.racks if r.id == rack_id), None): the position of
\* the first rack carrying the id, 0 for None
FindRack(racks, rack_id) ==
    LET hits == { i \in 1..Len(racks) : racks[i].id = rack_id }
    IN  IF hits = {} THEN 0 ELSE CHOOSE i \in hits : \A j \in hits : i <= j

\* rack.configuration['beam_elevations'] = beam_elevations, the one write
\* optimize_rack_elevations makes
SetRackBeamElevations(rack, beam_elevations) ==
    [rack EXCEPT !.configuration =
        [key \in DOMAIN rack.configuration \cup {"beam_elevations"} |->
            IF key = "beam_elevations" THEN beam_elevations
            ELSE rack.configuration[key]]]

\* rack.height; a Rack built without a height has 0.0
RackHeight(rack) == Get(rack, "height", 0)

\* _calculate_rack_metrics divides top_beam by rack.height once the rack
\* holds more than one beam elevation
RackMetricsRaises(rack) ==
    /\ Len(Get(rack.configuration, "beam_elevations", <<>>)) > 1
    /\ RackHeight(rack) = 0

\* _calculate_rack_metrics: pallet_positions in half pallets,
\* storage_efficiency in hundredths, vertical_utilization as the fraction
\* num / den (top_beam is in units of 1/76200 ft, rack.height in feet)
RackMetrics(rack) ==
    LET beam_elevations == Get(rack.configuration, "beam_elevations", <<>>)
        unit == 100 * UnitsPerHundredthFoot
    IN  [pallet_positions |-> PalletPositions(<<rack>>),
         storage_efficiency |-> 85,
         vertical_utilization |->
            IF Len(beam_elevations) > 1
            THEN IF Last(beam_elevations) * 100 >= 95 * RackHeight(rack) * unit
                 THEN [num |-> 95, den |-> 100]
                 ELSE [num |-> Last(beam_elevations),
                       den |-> RackHeight(rack) * unit]
            ELSE [num |-> 80, den |-> 100]]

\* Every value SlottingOptimizer.optimize may return
SlottingOptimizeResults(lay, prods, cons) ==
    LET locations == GetAllLocations(lay.racks)
    IN  IF locations = <<>> \/ prods = <<>> THEN {<<>>}
        ELSE { SlottingMipResult(x, prods, locations, 1) :
                 x \in SlottingMipSolutions(prods, locations, cons) }
             \cup { SlottingHeuristic(prods, locations, cons) }

\* _calculate_slotting_metrics divides by len(products) * 2
SlottingMetricsRaises(prods) == Len(prods) = 0

\* _calculate_slotting_metrics for a non-empty product list:
\*   slotting_efficiency = min(0.95, 0.7 + len(assignments) / (len(products) * 2))
\*                                                     in units of 1/600
\*   travel_efficiency   = min(0.9, 0.6 + slotting_efficiency * 0.3)
\*                                                     in units of 1/6000
\*   pick_rate           = 60 + travel_efficiency * 40  in units of 1/150
\* (exact for product lists of up to six products)
SlottingMetrics(assignments, prods) ==
    LET slotting_efficiency ==
            Min2(570, 420 + (Len(assignments) * 300) \div Len(prods))
        travel_efficiency == Min2(5400, 3600 + slotting_efficiency * 3)
    IN  [slotting_efficiency |-> slotting_efficiency,
         travel_efficiency |-> travel_efficiency,
         pick_rate |-> 9000 + travel_efficiency]

\* metrics.update(other)
DictUpdate(metrics, other) ==
    [key \in DOMAIN metrics \cup DOMAIN other |->
        IF key \in DOMAIN other THEN other[key] ELSE metrics[key]]

\* the dict evaluate_layout returns; products is <<>> for None and for []
EvaluateMetrics(lay, prods) ==
    IF prods # <<>>
    THEN DictUpdate(LayoutMetrics(lay), SlottingMetrics(<<>>, prods))
    ELSE LayoutMetrics(lay)

----------------------------------------------------------------------------
(* The inputs tried *)

\* sequences over S of length 0..n
SeqsUpTo(S, n) == UNION { [1..k -> S] : k \in 0..n }

EmptyLayout ==
    [id |-> "layout", facility_id |-> "facility", racks |-> <<>>,
     aisles |-> <<>>, metrics |-> EmptyDict]

AisleTypes == {"main", "cross", "staging", "standard"}
RackTypes == {"selective", "drive-in", "pallet-flow"}

MakeProduct(i, t) ==
    [id |-> i, length |-> t.length, width |-> t.width, height |-> t.height,
     weight |-> t.weight, velocity_class |-> t.velocity_class]

\* product lists: products i = 1, 2, .. with id i, built from templates
ProductLists(templates, n) ==
    { [i \in 1..Len(ts) |-> MakeProduct(i, ts[i])] : ts \in SeqsUpTo(templates, n) }

MakeAisle(i, type) == [id |-> i, width |-> 10 * TicksPerFoot, type |-> type]

MakeRack(i, r) ==
    [id |-> i, rack_type_id |-> r.rack_type_id, bays |-> r.bays,
     configuration |-> r.configuration]

\* Elevation: heights of 0, 0.3 and 0.4 in; reach of 0, 0.03 and 0.05 ft;
\* clearances and spacings of 0.1 and 0.2 in, or all zero
ElevationTemplates ==
    { [length |-> 480, width |-> 400, height |-> h, weight |-> 1000,
       velocity_class |-> "A"] : h \in {0, 3, 4} }
ElevationReach == {0, 3, 5}
ElevationConstraints ==
    { [min_clearance |-> c, min_beam_spacing |-> s, max_levels |-> l] :
        c \in {0, 1}, s \in {1, 2}, l \in 0..MaxLevelsBound }
    \cup { [min_clearance |-> 0, min_beam_spacing |-> 0, max_levels |-> 1] }

\* Aisle: equipment of 10 to 12 ft; the options left out (the defaults),
\* or bounds and increments that are or are not whole inches, or a zero
\* increment
AisleEquipment ==
    { [reach_height |-> 0, min_aisle_width |-> 600, max_aisle_width |-> 720] }
AisleConstraints ==
    { EmptyDict,
      [optimize_for_density |-> FALSE, optimize_for_accessibility |-> TRUE],
      [min_aisle_width |-> 513, max_aisle_width |-> 600],
      [min_aisle_width |-> 720, max_aisle_width |-> 798,
       optimize_for_density |-> FALSE],
      [aisle_width_increment |-> 18],
      [aisle_width_increment |-> 3],
      [aisle_width_increment |-> 0] }
AisleLayouts ==
    { [EmptyLayout EXCEPT
         !.aisles = [i \in 1..Len(ts) |-> MakeAisle(i, ts[i])],
         !.racks = [i \in 1..Len(rs) |->
                      MakeRack(i, [rack_type_id |-> rs[i], bays |-> 1,
                                   configuration |-> EmptyDict])]] :
        ts \in SeqsUpTo(AisleTypes, MaxAisles),
        rs \in SeqsUpTo(RackTypes, MaxRacks) }

\* Slotting: products that fit as given, fit rotated, or are too tall;
\* racks of one to three bays, of no level, one level, the default three
\* levels and eight levels
SlottingTemplates ==
    { [length |-> 480, width |-> 400, height |-> 50, weight |-> 1000,
       velocity_class |-> "A"],
      [length |-> 400, width |-> 480, height |-> 60, weight |-> 3000,
       velocity_class |-> "B"],
      [length |-> 480, width |-> 400, height |-> 480, weight |-> 1000,
       velocity_class |-> "C"] }
SlottingConstraints ==
    { EmptyDict,
      [respect_product_dimensions |-> FALSE],
      [respect_product_dimensions |-> TRUE, respect_weight_limits |-> FALSE] }
SlottingRacks ==
    { [rack_type_id |-> "selective", bays |-> 2,
       configuration |-> [beam_levels |-> 1]],
      [rack_type_id |-> "selective", bays |-> 3,
       configuration |-> [beam_levels |-> 1]],
      [rack_type_id |-> "drive-in", bays |-> 1, configuration |-> EmptyDict],
      [rack_type_id |-> "pallet-flow", bays |-> 1,
       configuration |-> [beam_levels |-> -1]] }
\* a rack of more levels than the max_level = 5 the accessibility assumes
SlottingTallRack ==
    [rack_type_id |-> "mobile", bays |-> 1, configuration |-> [beam_levels |-> 8]]
SlottingLayouts ==
    { [EmptyLayout EXCEPT !.racks = [i \in 1..Len(rs) |-> MakeRack(i, rs[i])]] :
        rs \in SeqsUpTo(SlottingRacks, MaxRacks) \cup {<<SlottingTallRack>>} }

\* Scenario A: one main aisle, no rack, equipment of 12 to 14 ft, an
\* increment of 0.5 ft, the density and accessibility options left out
ScenarioALayout == [EmptyLayout EXCEPT !.aisles = <<MakeAisle(1, "main")>>]
ScenarioAEquipment ==
    [reach_height |-> 0, min_aisle_width |-> 720, max_aisle_width |-> 840]
ScenarioAConstraints == [aisle_width_increment |-> 30]

\* Scenario B: products 48, 36 and 24 in high, a clearance of 6 in, a beam
\* spacing of 12 in, 4 levels, a reach of 288 in: reach_height is 24 (feet,
\* the unit the optimizer converts from), or the number 288 as it stands
ScenarioBProducts ==
    [i \in 1..3 |->
        MakeProduct(i, [length |-> 480, width |-> 400,
                        height |-> <<480, 360, 240>>[i], weight |-> 1000,
                        velocity_class |-> "A"])]
ScenarioBEquipment ==
    { [reach_height |-> r, min_aisle_width |-> 600, max_aisle_width |-> 720] :
        r \in {2400, 28800} }
ScenarioBConstraints ==
    [min_clearance |-> 60, min_beam_spacing |-> 120, max_levels |-> 4]

\* Scenario C: products of classes A, B and C that fit every location, and
\* one rack of one bay and two levels: two locations of equal dimensions,
\* the lower one the more accessible
ScenarioCProducts ==
    [i \in 1..3 |->
        MakeProduct(i, [length |-> 480, width |-> 400, height |-> 50,
                        weight |-> 1000,
                        velocity_class |-> <<"A", "B", "C">>[i]])]
ScenarioCLayout ==
    [EmptyLayout EXCEPT
       !.racks = <<MakeRack(1, [rack_type_id |-> "selective", bays |-> 1,
                                configuration |-> [beam_levels |-> 2]])>>]

\* Engine: no boundary, a boundary dict as Facility declares it, or an
\* object with a coordinates attribute: a rectangle from (0, 0) to
\* (width, depth) in feet, one of them smaller than a rack with its aisle
EngineFacilities ==
    { [id |-> "facility", boundary |-> b] :
        b \in { [kind |-> "empty"], [kind |-> "dict"],
                [kind |-> "polygon", width |-> 40, depth |-> 30],
                [kind |-> "polygon", width |-> 100, depth |-> 80],
                [kind |-> "polygon", width |-> 100, depth |-> 300] } }
\* a truck working in aisles of 10 to 12 ft, and a narrow-aisle truck
\* working in aisles of 8 to 9 ft
EngineEquipment ==
    { [reach_height |-> 3, min_aisle_width |-> 600, max_aisle_width |-> 720],
      [reach_height |-> 3, min_aisle_width |-> 480, max_aisle_width |-> 540] }
EngineTemplates ==
    { [length |-> 480, width |-> 400, height |-> 3, weight |-> 1000,
       velocity_class |-> "A"] }
\* parameters left out (None and the all-True default dict behave alike),
\* or the four stage switches with small elevation options
EngineParameters ==
    { EmptyDict }
    \cup { [optimize_rack_placement |-> a, optimize_aisle_widths |-> b,
            optimize_elevations |-> c, optimize_slotting |-> d,
            min_clearance |-> 1, min_beam_spacing |-> 1, max_levels |-> l] :
            a \in BOOLEAN, b \in BOOLEAN, c \in BOOLEAN, d \in BOOLEAN,
            l \in 1..MaxLevelsBound }

\* Entry points: layouts a caller holds.  One rack of every type the
\* metrics distinguish and one of a type they do not; a rack configured as
\* rack placement configures it, configurations that leave beam_levels out,
\* a rack as the elevation stage leaves it for an empty product list; racks
\* built with and without a height.
SessionRacks ==
    { [rack_type_id |-> "selective", bays |-> 1, height |-> 20,
       configuration |-> [beam_levels |-> 3, beam_height |-> 6,
                          first_beam_height |-> 6]],
      [rack_type_id |-> "drive-in", bays |-> 1, configuration |-> EmptyDict],
      [rack_type_id |-> "push-back", bays |-> 2, height |-> 20,
       configuration |-> [beam_levels |-> 2]],
      [rack_type_id |-> "pallet-flow", bays |-> 1, height |-> 20,
       configuration |-> [beam_elevations |-> <<>>, beam_levels |-> -1]],
      [rack_type_id |-> "mobile", bays |-> 1, height |-> 20,
       configuration |-> [beam_levels |-> 1]],
      [rack_type_id |-> "cantilever", bays |-> 1, height |-> 20,
       configuration |-> EmptyDict] }

\* rack number i of a caller's layout, with an id of the shape rack
\* placement gives
MakeSessionRack(i, r) ==
    [key \in DOMAIN r \cup {"id"} |->
        IF key = "id" THEN <<"rack", 0, -1, i - 1>> ELSE r[key]]

SessionLayouts ==
    { [EmptyLayout EXCEPT
         !.racks = [i \in 1..Len(rs) |-> MakeSessionRack(i, rs[i])],
         !.aisles = as] :
        rs \in SeqsUpTo(SessionRacks, MaxRacks),
        as \in {<<>>, <<MakeAisle(1, "main")>>} }

\* no product, or one
SessionProducts == ProductLists(EngineTemplates, 1)

\* a rack id no rack of a layout carries
UnknownRackId == <<"rack", -1, 0, 0>>

\* the parameters argument of optimize_rack_elevations: None, or options
\* that the small products and reach can meet
SessionElevationParameters ==
    { DefaultElevationParameters,
      [min_clearance |-> 1, min_beam_spacing |-> 1, max_levels |-> 1] }

----------------------------------------------------------------------------
(* One call of an optimizer's optimize() *)

NoFacility == [id |-> "", boundary |-> [kind |-> "empty"]]

\* no entry point of the engine has been called
NoCall == [op |-> "none"]

InitCall ==
    /\ facility = NoFacility
    /\ parameters = EmptyDict
    /\ stage = "idle"
    /\ rackIndex = 0
    /\ log = <<>>
    /\ ret = EmptyDict
    /\ call = NoCall
    /\ calls = 0
    /\ rackCalls = EmptyDict
    /\ pc = "call"
    /\ exactAttempts = 0
    /\ heuristicAttempts = 0
    /\ exactFailed = FALSE
    /\ result = <<>>
    /\ path = "none"

InitElevation ==
    /\ optimizer = "elevation"
    /\ layout = EmptyLayout
    /\ products \in ProductLists(ElevationTemplates, MaxProducts)
    /\ equipment \in { [reach_height |-> r, min_aisle_width |-> 600,
                         max_aisle_width |-> 720] : r \in ElevationReach }
    /\ constraints \in ElevationConstraints
    /\ InitCall

InitAisle ==
    /\ optimizer = "aisle"
    /\ layout \in AisleLayouts
    /\ products = <<>>
    /\ equipment \in AisleEquipment
    /\ constraints \in AisleConstraints
    /\ InitCall

InitSlotting ==
    /\ optimizer = "slotting"
    /\ layout \in SlottingLayouts
    /\ products \in ProductLists(SlottingTemplates, MaxProducts)
    /\ equipment \in AisleEquipment
    /\ constraints \in SlottingConstraints
    /\ InitCall

\* ElevationProfileOptimizer.optimize up to the try: no products, no attempt
ElevationOptimize ==
    /\ optimizer = "elevation" /\ pc = "call"
    /\ IF products = <<>>
       THEN pc' = "returned" /\ result' = <<>>
       ELSE pc' = "exact" /\ UNCHANGED result
    /\ UNCHANGED <<optimizer, layout, products, equipment, constraints,
                   exactAttempts, heuristicAttempts, exactFailed, path>>
    /\ UNCHANGED engVars

\* the try block: _solve_with_cp returns a solution or raises
ElevationSolveWithCp ==
    /\ optimizer = "elevation" /\ pc = "exact"
    /\ exactAttempts' = exactAttempts + 1
    /\ \/ \E b \in ElevationCpSolutions(ProductHeights(products),
                                         equipment.reach_height, constraints) :
            /\ result' = ElevationCpResult(b)
            /\ path' = "exact"
            /\ pc' = "returned"
            /\ UNCHANGED exactFailed
       \/ /\ exactFailed' = TRUE
          /\ pc' = "fallback"
          /\ UNCHANGED <<result, path>>
    /\ UNCHANGED <<optimizer, layout, products, equipment, constraints,
                   heuristicAttempts>>
    /\ UNCHANGED engVars

\* the except block: _solve_with_heuristic; a zero level_height raises
\* ZeroDivisionError out of optimize
ElevationSolveWithHeuristic ==
    /\ optimizer = "elevation" /\ pc = "fallback"
    /\ heuristicAttempts' = heuristicAttempts + 1
    /\ IF ElevationLevelHeight(ProductHeights(products), constraints) = 0
       THEN pc' = "raised" /\ UNCHANGED <<result, path>>
       ELSE /\ result' = ElevationHeuristic(ProductHeights(products),
                                            equipment.reach_height, constraints)
            /\ path' = "heuristic"
            /\ pc' = "returned"
    /\ UNCHANGED <<optimizer, layout, products, equipment, constraints,
                   exactAttempts, exactFailed>>
    /\ UNCHANGED engVars

\* AisleWidthOptimizer.optimize up to the try
AisleOptimize ==
    /\ optimizer = "aisle" /\ pc = "call"
    /\ pc' = "exact"
    /\ UNCHANGED <<optimizer, layout, products, equipment, constraints,
                   exactAttempts, heuristicAttempts, exactFailed, result, path>>
    /\ UNCHANGED engVars

AisleSolveWithCp ==
    /\ optimizer = "aisle" /\ pc = "exact"
    /\ exactAttempts' = exactAttempts + 1
    /\ \/ \E adj \in AdjacentRacksChoices(layout) :
          \E w \in AisleCpSolutions(layout, adj, equipment, constraints) :
            /\ result' = AisleCpResult(layout, w)
            /\ path' = "exact"
            /\ pc' = "returned"
            /\ UNCHANGED exactFailed
       \/ /\ exactFailed' = TRUE
          /\ pc' = "fallback"
          /\ UNCHANGED <<result, path>>
    /\ UNCHANGED <<optimizer, layout, products, equipment, constraints,
                   heuristicAttempts>>
    /\ UNCHANGED engVars

\* mutation of AisleSolveWithHeuristic: the division by the increment is
\* made before the loop over the aisles, so that a zero increment raises
\* for a layout without aisles too
AisleSolveWithHeuristicDividingFirst ==
    /\ optimizer = "aisle" /\ pc = "fallback"
    /\ heuristicAttempts' = heuristicAttempts + 1
    /\ IF Get(constraints, "aisle_width_increment", 30) = 0
       THEN pc' = "raised" /\ UNCHANGED <<result, path>>
       ELSE \E adj \in AdjacentRacksChoices(layout) :
            /\ result' = AisleHeuristic(layout, adj, equipment, constraints)
            /\ path' = "heuristic"
            /\ pc' = "returned"
    /\ UNCHANGED <<optimizer, layout, products, equipment, constraints,
                   exactAttempts, exactFailed>>
    /\ UNCHANGED engVars

\* a zero increment raises ZeroDivisionError once there is an aisle
AisleSolveWithHeuristic ==
    /\ optimizer = "aisle" /\ pc = "fallback"
    /\ heuristicAttempts' = heuristicAttempts + 1
    /\ IF Get(constraints, "aisle_width_increment", 30) = 0 /\ layout.aisles # <<>>
       THEN pc' = "raised" /\ UNCHANGED <<result, path>>
       ELSE \E adj \in AdjacentRacksChoices(layout) :
            /\ result' = AisleHeuristic(layout, adj, equipment, constraints)
            /\ path' = "heuristic"
            /\ pc' = "returned"
    /\ UNCHANGED <<optimizer, layout, products, equipment, constraints,
                   exactAttempts, exactFailed>>
    /\ UNCHANGED engVars

\* SlottingOptimizer.optimize up to the try
SlottingOptimize ==
    /\ optimizer = "slotting" /\ pc = "call"
    /\ pc' = "exact"
    /\ UNCHANGED <<optimizer, layout, products, equipment, constraints,
                   exactAttempts, heuristicAttempts, exactFailed, result, path>>
    /\ UNCHANGED engVars

\* mutation of SlottingSolveWithMip: the solver's failure leaves optimize
\* instead of reaching the except clause
SlottingSolveWithMipSurfacingFailure ==
    /\ optimizer = "slotting" /\ pc = "exact"
    /\ exactAttempts' = exactAttempts + 1
    /\ exactFailed' = TRUE
    /\ pc' = "raised"
    /\ UNCHANGED <<optimizer, layout, products, equipment, constraints,
                   heuristicAttempts, result, path>>
    /\ UNCHANGED engVars

\* _solve_with_mip: empty result without a solver run when there is
\* nothing to assign, else a solution or a raise
SlottingSolveWithMip ==
    /\ optimizer = "slotting" /\ pc = "exact"
    /\ exactAttempts' = exactAttempts + 1
    /\ LET locations == GetAllLocations(layout.racks)
       IN  IF locations = <<>> \/ products = <<>>
           THEN /\ result' = <<>>
                /\ path' = "exact"
                /\ pc' = "returned"
                /\ UNCHANGED exactFailed
           ELSE \/ \E x \in SlottingMipSolutions(products, locations, constraints) :
                     /\ result' = SlottingMipResult(x, products, locations, 1)
                     /\ path' = "exact"
                     /\ pc' = "returned"
                     /\ UNCHANGED exactFailed
                \/ /\ exactFailed' = TRUE
                   /\ pc' = "fallback"
                   /\ UNCHANGED <<result, path>>
    /\ UNCHANGED <<optimizer, layout, products, equipment, constraints,
                   heuristicAttempts>>
    /\ UNCHANGED engVars

SlottingSolveWithHeuristic ==
    /\ optimizer = "slotting" /\ pc = "fallback"
    /\ heuristicAttempts' = heuristicAttempts + 1
    /\ result' = SlottingHeuristic(products, GetAllLocations(layout.racks),
                                   constraints)
    /\ path' = "heuristic"
    /\ pc' = "returned"
    /\ UNCHANGED <<optimizer, layout, products, equipment, constraints,
                   exactAttempts, exactFailed>>
    /\ UNCHANGED engVars

NextElevation ==
    ElevationOptimize \/ ElevationSolveWithCp \/ ElevationSolveWithHeuristic
NextAisle ==
    AisleOptimize \/ AisleSolveWithCp \/ AisleSolveWithHeuristic
NextSlotting ==
    SlottingOptimize \/ SlottingSolveWithMip \/ SlottingSolveWithHeuristic

SpecElevation == InitElevation /\ [][NextElevation]_vars
SpecAisle == InitAisle /\ [][NextAisle]_vars
SpecSlotting == InitSlotting /\ [][NextSlotting]_vars

\* optimize() has caught the exact solver's failure and is about to call
\* _solve_with_heuristic
InitFallback ==
    /\ facility = NoFacility
    /\ parameters = EmptyDict
    /\ stage = "idle"
    /\ rackIndex = 0
    /\ log = <<>>
    /\ ret = EmptyDict
    /\ call = NoCall
    /\ calls = 0
    /\ rackCalls = EmptyDict
    /\ pc = "fallback"
    /\ exactAttempts = 1
    /\ heuristicAttempts = 0
    /\ exactFailed = TRUE
    /\ result = <<>>
    /\ path = "none"

\* The heuristics on their own: the inputs of the three optimizers with
\* which the fallback can be reached, and the three scenarios.
InitHeuristic ==
    /\ \/ /\ optimizer = "elevation"
          /\ layout = EmptyLayout
          /\ \/ /\ products \in ProductLists(ElevationTemplates, MaxProducts) \ {<<>>}
                /\ equipment \in { [reach_height |-> r, min_aisle_width |-> 600,
                                     max_aisle_width |-> 720] : r \in ElevationReach }
                /\ constraints \in ElevationConstraints
             \/ /\ products = ScenarioBProducts
                /\ equipment \in ScenarioBEquipment
                /\ constraints = ScenarioBConstraints
       \/ /\ optimizer = "aisle"
          /\ products = <<>>
          /\ \/ /\ layout \in AisleLayouts
                /\ equipment \in AisleEquipment
                /\ constraints \in AisleConstraints
             \/ /\ layout = ScenarioALayout
                /\ equipment = ScenarioAEquipment
                /\ constraints \in {EmptyDict, ScenarioAConstraints}
       \/ /\ optimizer = "slotting"
          /\ equipment \in AisleEquipment
          /\ \/ /\ layout \in SlottingLayouts
                /\ products \in ProductLists(SlottingTemplates, MaxProducts) \ {<<>>}
                /\ GetAllLocations(layout.racks) # <<>>
                /\ constraints \in SlottingConstraints
             \/ /\ layout = ScenarioCLayout
                /\ products = ScenarioCProducts
                /\ constraints \in SlottingConstraints
    /\ InitFallback

NextHeuristic ==
    \/ ElevationSolveWithHeuristic
    \/ AisleSolveWithHeuristic
    \/ SlottingSolveWithHeuristic

SpecHeuristic == InitHeuristic /\ [][NextHeuristic]_vars

\* a call of any one of the three optimizers
InitOptimizers == InitElevation \/ InitAisle \/ InitSlotting
NextOptimizers == NextElevation \/ NextAisle \/ NextSlotting
SpecOptimizers == InitOptimizers /\ [][NextOptimizers]_vars

----------------------------------------------------------------------------
(* One call of OptimizationEngine.optimize_layout *)

Init ==
    /\ facility \in EngineFacilities
    /\ products \in ProductLists(EngineTemplates, MaxProducts)
    /\ equipment \in EngineEquipment
    /\ parameters \in EngineParameters
    /\ layout = NoLayout
    /\ stage = "create"
    /\ rackIndex = 0
    /\ log = <<>>
    /\ ret = EmptyDict
    /\ call = NoCall
    /\ calls = 0
    /\ rackCalls = EmptyDict
    /\ optimizer = "none"
    /\ pc = "idle"
    /\ constraints = EmptyDict
    /\ exactAttempts = 0
    /\ heuristicAttempts = 0
    /\ exactFailed = FALSE
    /\ result = <<>>
    /\ path = "none"

\* layout = self._create_initial_layout(facility)
CreateInitialLayout ==
    /\ stage = "create"
    /\ layout' = NewLayout(facility.id)
    /\ stage' = "placement"
    /\ UNCHANGED <<facility, parameters, products, equipment, rackIndex, log, ret>>
    /\ UNCHANGED <<optimizer, pc, constraints, exactAttempts, heuristicAttempts,
                   exactFailed, result, path>>
    /\ UNCHANGED <<call, calls, rackCalls>>

\* if parameters.get("optimize_rack_placement", True): _optimize_rack_placement
OptimizeRackPlacement ==
    /\ stage = "placement"
    /\ IF Get(parameters, "optimize_rack_placement", TRUE)
       THEN /\ log' = Append(log, "rack_placement")
            /\ IF PlacementRaises(facility)
               THEN stage' = "raised" /\ UNCHANGED layout
               ELSE /\ layout' = RackPlacement(layout, facility, equipment)
                    /\ stage' = "aisles"
       ELSE stage' = "aisles" /\ UNCHANGED <<layout, log>>
    /\ UNCHANGED <<facility, parameters, products, equipment, rackIndex, ret>>
    /\ UNCHANGED <<optimizer, pc, constraints, exactAttempts, heuristicAttempts,
                   exactFailed, result, path>>
    /\ UNCHANGED <<call, calls, rackCalls>>

\* mutation of OptimizeAisleWidths: the stage runs whatever its option says
OptimizeAisleWidthsIgnoringOption ==
    /\ stage = "aisles"
    /\ log' = Append(log, "aisle_widths")
    /\ \E optimized_aisles \in
            AisleOptimizeResults(layout, equipment,
                                 AisleParams(equipment, parameters)) :
          /\ result' = optimized_aisles
          /\ layout' = [layout EXCEPT
                          !.aisles = UpdateAisleWidths(layout.aisles,
                                                       optimized_aisles)]
    /\ stage' = "elevations"
    /\ UNCHANGED <<facility, parameters, products, equipment, rackIndex, ret>>
    /\ UNCHANGED <<optimizer, pc, constraints, exactAttempts, heuristicAttempts,
                   exactFailed, path>>
    /\ UNCHANGED <<call, calls, rackCalls>>

\* if parameters.get("optimize_aisle_widths", True): _optimize_aisle_widths
OptimizeAisleWidths ==
    /\ stage = "aisles"
    /\ IF Get(parameters, "optimize_aisle_widths", TRUE)
       THEN /\ log' = Append(log, "aisle_widths")
            /\ \E optimized_aisles \in
                    AisleOptimizeResults(layout, equipment,
                                         AisleParams(equipment, parameters)) :
                  /\ result' = optimized_aisles
                  /\ layout' = [layout EXCEPT
                                  !.aisles = UpdateAisleWidths(layout.aisles,
                                                               optimized_aisles)]
       ELSE UNCHANGED <<layout, log, result>>
    /\ stage' = "elevations"
    /\ UNCHANGED <<facility, parameters, products, equipment, rackIndex, ret>>
    /\ UNCHANGED <<optimizer, pc, constraints, exactAttempts, heuristicAttempts,
                   exactFailed, path>>
    /\ UNCHANGED <<call, calls, rackCalls>>

\* if parameters.get("optimize_elevations", True): enter
\* _optimize_rack_elevations
OptimizeRackElevations ==
    /\ stage = "elevations"
    /\ IF Get(parameters, "optimize_elevations", TRUE)
       THEN log' = Append(log, "elevations") /\ stage' = "rack_loop"
       ELSE stage' = "slotting" /\ UNCHANGED log
    /\ rackIndex' = 0
    /\ UNCHANGED <<facility, parameters, products, equipment, layout, ret>>
    /\ UNCHANGED <<optimizer, pc, constraints, exactAttempts, heuristicAttempts,
                   exactFailed, result, path>>
    /\ UNCHANGED <<call, calls, rackCalls>>

\* mutation of RackElevation: the slotting stage is entered with racks
\* still waiting for their elevations
RackElevationLeavingEarly ==
    /\ stage = "rack_loop"
    /\ stage' = "slotting"
    /\ UNCHANGED <<facility, parameters, products, equipment, layout, rackIndex,
                   log, ret>>
    /\ UNCHANGED <<optimizer, pc, constraints, exactAttempts, heuristicAttempts,
                   exactFailed, result, path>>
    /\ UNCHANGED <<call, calls, rackCalls>>

\* one turn of "for rack in layout.racks": one call of the elevation
\* optimizer and the update of the rack; the loop's end returns the layout
RackElevation ==
    /\ stage = "rack_loop"
    /\ IF rackIndex < Len(layout.racks)
       THEN \/ /\ \E beam_elevations \in
                      ElevationOptimizeResults(products, equipment,
                                               ElevationParams(parameters)) :
                    /\ result' = beam_elevations
                    /\ layout' = [layout EXCEPT
                                    !.racks[rackIndex + 1] =
                                        SetBeamElevations(layout.racks[rackIndex + 1],
                                                          beam_elevations)]
               /\ rackIndex' = rackIndex + 1
               /\ UNCHANGED stage
            \/ /\ ElevationOptimizeRaises(products, ElevationParams(parameters))
               /\ stage' = "raised"
               /\ UNCHANGED <<layout, rackIndex, result>>
       ELSE stage' = "slotting" /\ UNCHANGED <<layout, rackIndex, result>>
    /\ UNCHANGED <<facility, parameters, products, equipment, log, ret>>
    /\ UNCHANGED <<optimizer, pc, constraints, exactAttempts, heuristicAttempts,
                   exactFailed, path>>
    /\ UNCHANGED <<call, calls, rackCalls>>

\* if parameters.get("optimize_slotting", True): _optimize_slotting, which
\* drops the assignments and returns the layout as it is
OptimizeSlotting ==
    /\ stage = "slotting"
    /\ IF Get(parameters, "optimize_slotting", TRUE)
       THEN log' = Append(log, "slotting")
       ELSE UNCHANGED log
    /\ stage' = "metrics"
    /\ UNCHANGED <<facility, parameters, products, equipment, layout, rackIndex, ret>>
    /\ UNCHANGED <<optimizer, pc, constraints, exactAttempts, heuristicAttempts,
                   exactFailed, result, path>>
    /\ UNCHANGED <<call, calls, rackCalls>>

\* layout = self._calculate_layout_metrics(layout); return layout: the name
\* layout is rebound to the metrics dict, and that dict is returned
CalculateLayoutMetrics ==
    /\ stage = "metrics"
    /\ log' = Append(log, "metrics")
    /\ ret' = LayoutMetrics(layout)
    /\ stage' = "done"
    /\ UNCHANGED <<facility, parameters, products, equipment, layout, rackIndex>>
    /\ UNCHANGED <<optimizer, pc, constraints, exactAttempts, heuristicAttempts,
                   exactFailed, result, path>>
    /\ UNCHANGED <<call, calls, rackCalls>>

Next ==
    \/ CreateInitialLayout
    \/ OptimizeRackPlacement
    \/ OptimizeAisleWidths
    \/ OptimizeRackElevations
    \/ RackElevation
    \/ OptimizeSlotting
    \/ CalculateLayoutMetrics

Spec == Init /\ [][Next]_vars

----------------------------------------------------------------------------
(* optimize_layout with the per-rack calls of the elevation stage run in any
   order and interleaving: the body of "for rack in layout.racks" is taken
   in two steps, the call of the elevation optimizer for a rack and the
   update of that rack, and the racks are taken in any order, a call
   beginning while others wait for their update. *)

\* the racks the loop of _optimize_rack_elevations can end with when it
\* runs as written, one rack after the other: every rack updated with a
\* value its call can return
SequentialRackElevations(racks, prods, equip, params) ==
    { [i \in 1..Len(racks) |-> SetBeamElevations(racks[i], es[i])] :
        es \in [1..Len(racks) ->
                  ElevationOptimizeResults(prods, equip, ElevationParams(params))] }

\* a run that places racks, leaves the aisles as placed and enters the
\* elevation stage
InitAnyOrder ==
    /\ Init
    /\ facility.boundary.kind = "polygon"
    /\ Get(parameters, "optimize_rack_placement", TRUE)
    /\ ~Get(parameters, "optimize_aisle_widths", TRUE)
    /\ Get(parameters, "optimize_elevations", TRUE)

\* beam_elevations = self.elevation_optimizer.optimize(rack=rack, ...) for
\* a rack whose call has not begun
RackElevationCall ==
    /\ stage = "rack_loop"
    /\ \E i \in (1..Len(layout.racks)) \ DOMAIN rackCalls :
          \/ /\ \E beam_elevations \in
                      ElevationOptimizeResults(products, equipment,
                                               ElevationParams(parameters)) :
                    /\ result' = beam_elevations
                    /\ rackCalls' =
                          [k \in DOMAIN rackCalls \cup {i} |->
                              IF k = i
                              THEN [beam_elevations |-> beam_elevations,
                                    written |-> FALSE]
                              ELSE rackCalls[k]]
             /\ UNCHANGED stage
          \/ /\ ElevationOptimizeRaises(products, ElevationParams(parameters))
             /\ stage' = "raised"
             /\ UNCHANGED <<result, rackCalls>>
    /\ UNCHANGED <<facility, parameters, products, equipment, layout, rackIndex,
                   log, ret>>
    /\ UNCHANGED <<optimizer, pc, constraints, exactAttempts, heuristicAttempts,
                   exactFailed, path>>
    /\ UNCHANGED <<call, calls>>

\* mutation of RackElevationWriteBack: the values are stored in the order
\* the calls complete, the k-th value to arrive going to the k-th rack
RackElevationWriteBackInArrivalOrder ==
    /\ stage = "rack_loop"
    /\ \E i \in DOMAIN rackCalls :
          /\ ~rackCalls[i].written
          /\ layout' = [layout EXCEPT
                          !.racks[rackIndex + 1] =
                              SetBeamElevations(layout.racks[rackIndex + 1],
                                                rackCalls[i].beam_elevations)]
          /\ rackCalls' = [rackCalls EXCEPT ![i].written = TRUE]
    /\ rackIndex' = rackIndex + 1
    /\ UNCHANGED <<facility, parameters, products, equipment, stage, log, ret>>
    /\ UNCHANGED <<optimizer, pc, constraints, exactAttempts, heuristicAttempts,
                   exactFailed, result, path>>
    /\ UNCHANGED <<call, calls>>

\* rack.configuration['beam_elevations'] = beam_elevations and
\* rack.configuration['beam_levels'] = len(beam_elevations) - 1, for a rack
\* whose call has returned: the rack the call was made for is updated
RackElevationWriteBack ==
    /\ stage = "rack_loop"
    /\ \E i \in DOMAIN rackCalls :
          /\ ~rackCalls[i].written
          /\ layout' = [layout EXCEPT
                          !.racks[i] =
                              SetBeamElevations(layout.racks[i],
                                                rackCalls[i].beam_elevations)]
          /\ rackCalls' = [rackCalls EXCEPT ![i].written = TRUE]
    /\ rackIndex' = rackIndex + 1
    /\ UNCHANGED <<facility, parameters, products, equipment, stage, log, ret>>
    /\ UNCHANGED <<optimizer, pc, constraints, exactAttempts, heuristicAttempts,
                   exactFailed, result, path>>
    /\ UNCHANGED <<call, calls>>

\* return layout: every rack has been updated
RackElevationsReturn ==
    /\ stage = "rack_loop"
    /\ rackIndex = Len(layout.racks)
    /\ stage' = "slotting"
    /\ UNCHANGED <<facility, parameters, products, equipment, layout, rackIndex,
                   log, ret>>
    /\ UNCHANGED <<optimizer, pc, constraints, exactAttempts, heuristicAttempts,
                   exactFailed, result, path>>
    /\ UNCHANGED <<call, calls, rackCalls>>

NextAnyOrder ==
    \/ CreateInitialLayout
    \/ OptimizeRackPlacement
    \/ OptimizeAisleWidths
    \/ OptimizeRackElevations
    \/ RackElevationCall
    \/ RackElevationWriteBack
    \/ RackElevationsReturn
    \/ OptimizeSlotting
    \/ CalculateLayoutMetrics

SpecAnyOrder == InitAnyOrder /\ [][NextAnyOrder]_vars

----------------------------------------------------------------------------
(* The engine's entry points that work on an existing layout, called one
   after the other on a layout the caller holds.  (optimize_layout builds a
   layout of its own and reads no other; its run is Spec.) *)

InitSession ==
    /\ layout \in SessionLayouts
    /\ products \in SessionProducts
    /\ equipment \in EngineEquipment
    /\ facility = NoFacility
    /\ parameters = EmptyDict
    /\ stage = "idle"
    /\ rackIndex = 0
    /\ log = <<>>
    /\ ret = EmptyDict
    /\ call = NoCall
    /\ calls = 0
    /\ rackCalls = EmptyDict
    /\ optimizer = "none"
    /\ pc = "idle"
    /\ constraints = EmptyDict
    /\ exactAttempts = 0
    /\ heuristicAttempts = 0
    /\ exactFailed = FALSE
    /\ result = <<>>
    /\ path = "none"

\* an entry point can be called
SessionReady == stage = "idle" /\ calls < MaxCalls

\* optimize_rack_elevations when no rack carries rack_id: ValueError, raised
\* before the optimizer is called
RackNotFound(rack_id) ==
    /\ call' = [op |-> "optimize_rack_elevations", rack_id |-> rack_id,
                ran |-> "none", outcome |-> "raised"]
    /\ UNCHANGED <<layout, ret>>

\* optimize_rack_elevations from the optimizer call on, for the rack at
\* position n: the optimizer raises, or its result is written to the rack
\* and _calculate_rack_metrics returns or raises
RackElevationsUpdate(rack_id, params, n) ==
    \/ \E beam_elevations \in
            ElevationOptimizeResults(products, equipment, params) :
          LET rack == SetRackBeamElevations(layout.racks[n], beam_elevations)
          IN  /\ layout' = [layout EXCEPT !.racks[n] = rack]
              /\ IF RackMetricsRaises(rack)
                 THEN /\ call' = [op |-> "optimize_rack_elevations",
                                  rack_id |-> rack_id, ran |-> "elevation",
                                  outcome |-> "raised"]
                      /\ UNCHANGED ret
                 ELSE /\ call' = [op |-> "optimize_rack_elevations",
                                  rack_id |-> rack_id, ran |-> "elevation",
                                  outcome |-> "returned"]
                      /\ ret' = [rack_id |-> rack_id,
                                 beam_elevations |-> beam_elevations,
                                 metrics |-> RackMetrics(rack)]
    \/ /\ ElevationOptimizeRaises(products, params)
       /\ call' = [op |-> "optimize_rack_elevations", rack_id |-> rack_id,
                   ran |-> "elevation", outcome |-> "raised"]
       /\ UNCHANGED <<layout, ret>>

\* mutation of CallOptimizeRackElevations: an unknown rack_id is answered
\* with the layout's first rack, or with an empty result
CallOptimizeRackElevationsLenient ==
    /\ SessionReady
    /\ \E rack_id \in { layout.racks[i].id : i \in 1..Len(layout.racks) }
                        \cup {UnknownRackId},
          params \in SessionElevationParameters :
          LET n == FindRack(layout.racks, rack_id)
          IN  IF n # 0 THEN RackElevationsUpdate(rack_id, params, n)
              ELSE IF layout.racks # <<>>
              THEN RackElevationsUpdate(rack_id, params, 1)
              ELSE /\ call' = [op |-> "optimize_rack_elevations",
                               rack_id |-> rack_id, ran |-> "none",
                               outcome |-> "returned"]
                   /\ UNCHANGED <<layout, ret>>
    /\ calls' = calls + 1
    /\ UNCHANGED rackCalls
    /\ UNCHANGED <<facility, parameters, products, equipment, stage, rackIndex, log>>
    /\ UNCHANGED <<optimizer, pc, constraints, exactAttempts, heuristicAttempts,
                   exactFailed, result, path>>

\* optimize_rack_elevations(layout, rack_id, products, equipment, parameters)
CallOptimizeRackElevations ==
    /\ SessionReady
    /\ \E rack_id \in { layout.racks[i].id : i \in 1..Len(layout.racks) }
                        \cup {UnknownRackId},
          params \in SessionElevationParameters :
          LET n == FindRack(layout.racks, rack_id)
          IN  IF n = 0 THEN RackNotFound(rack_id)
              ELSE RackElevationsUpdate(rack_id, params, n)
    /\ calls' = calls + 1
    /\ UNCHANGED rackCalls
    /\ UNCHANGED <<facility, parameters, products, equipment, stage, rackIndex, log>>
    /\ UNCHANGED <<optimizer, pc, constraints, exactAttempts, heuristicAttempts,
                   exactFailed, result, path>>

\* optimize_aisle_widths(layout, equipment) with parameters left None
CallOptimizeAisleWidths ==
    /\ SessionReady
    /\ \E optimized_aisles \in
            AisleOptimizeResults(layout, equipment,
                                 DefaultAisleParameters(equipment)) :
          LET updated == [layout EXCEPT
                            !.aisles = UpdateAisleWidths(layout.aisles,
                                                         optimized_aisles)]
          IN  /\ layout' = updated
              /\ ret' = [layout_id |-> layout.id,
                         optimized_aisles |-> optimized_aisles,
                         metrics |-> LayoutMetrics(updated)]
    /\ call' = [op |-> "optimize_aisle_widths", ran |-> "aisle",
                outcome |-> "returned"]
    /\ calls' = calls + 1
    /\ UNCHANGED rackCalls
    /\ UNCHANGED <<facility, parameters, products, equipment, stage, rackIndex, log>>
    /\ UNCHANGED <<optimizer, pc, constraints, exactAttempts, heuristicAttempts,
                   exactFailed, result, path>>

\* optimize_slotting(layout, products) with parameters left None
CallOptimizeSlotting ==
    /\ SessionReady
    /\ \E assignments \in
            SlottingOptimizeResults(layout, products, DefaultSlottingParameters) :
          IF SlottingMetricsRaises(products)
          THEN /\ call' = [op |-> "optimize_slotting", ran |-> "slotting",
                           outcome |-> "raised"]
               /\ UNCHANGED ret
          ELSE /\ call' = [op |-> "optimize_slotting", ran |-> "slotting",
                           outcome |-> "returned"]
               /\ ret' = [layout_id |-> layout.id,
                          assignments |-> assignments,
                          metrics |-> SlottingMetrics(assignments, products)]
    /\ calls' = calls + 1
    /\ UNCHANGED rackCalls
    /\ UNCHANGED <<facility, parameters, products, equipment, stage, rackIndex, log>>
    /\ UNCHANGED <<optimizer, pc, layout, constraints, exactAttempts,
                   heuristicAttempts, exactFailed, result, path>>

\* mutation of CallEvaluateLayout: the metrics are kept in layout.metrics,
\* as Layout.calculate_metrics keeps its own
CallEvaluateLayoutStoringMetrics ==
    /\ SessionReady
    /\ \E prods \in {<<>>, products} :
          /\ ret' = EvaluateMetrics(layout, prods)
          /\ layout' = [layout EXCEPT !.metrics = EvaluateMetrics(layout, prods)]
          /\ call' = [op |-> "evaluate_layout", products |-> prods,
                      ran |-> "none", outcome |-> "returned",
                      repeats |-> /\ call.op = "evaluate_layout"
                                  /\ call.products = prods]
    /\ calls' = calls + 1
    /\ UNCHANGED rackCalls
    /\ UNCHANGED <<facility, parameters, products, equipment, stage, rackIndex, log>>
    /\ UNCHANGED <<optimizer, pc, constraints, exactAttempts,
                   heuristicAttempts, exactFailed, result, path>>

\* evaluate_layout(layout, products), products left None or given.  The
\* call record notes whether the call repeats the one before it.
CallEvaluateLayout ==
    /\ SessionReady
    /\ \E prods \in {<<>>, products} :
          /\ ret' = EvaluateMetrics(layout, prods)
          /\ call' = [op |-> "evaluate_layout", products |-> prods,
                      ran |-> "none", outcome |-> "returned",
                      repeats |-> /\ call.op = "evaluate_layout"
                                  /\ call.products = prods]
    /\ calls' = calls + 1
    /\ UNCHANGED rackCalls
    /\ UNCHANGED <<facility, parameters, products, equipment, stage, rackIndex, log>>
    /\ UNCHANGED <<optimizer, pc, layout, constraints, exactAttempts,
                   heuristicAttempts, exactFailed, result, path>>

NextSession ==
    \/ CallOptimizeRackElevations
    \/ CallOptimizeAisleWidths
    \/ CallOptimizeSlotting
    \/ CallEvaluateLayout

SpecSession == InitSession /\ [][NextSession]_vars

----------------------------------------------------------------------------
(* Properties of optimize_layout *)

LayoutFields == {"id", "facility_id", "racks", "aisles", "metrics"}

\* C1: optimize_layout returns the Layout the stages built: the value
\* returned carries the layout's id and facility id, its racks and aisles,
\* and a metrics map holding the metrics computed in the final stage.
C1_ReturnsLayoutWithMetrics ==
    stage = "done" =>
        /\ LayoutFields \subseteq DOMAIN ret
        /\ ret.id = layout.id
        /\ ret.facility_id = facility.id
        /\ ret.racks = layout.racks
        /\ ret.aisles = layout.aisles
        /\ ret.metrics = LayoutMetrics(layout)

StageRank(s) ==
    CASE s = "rack_placement" -> 1
      [] s = "aisle_widths" -> 2
      [] s = "elevations" -> 3
      [] s = "slotting" -> 4
      [] s = "metrics" -> 5

StageEnabled(s) ==
    CASE s = "rack_placement" -> Get(parameters, "optimize_rack_placement", TRUE)
      [] s = "aisle_widths" -> Get(parameters, "optimize_aisle_widths", TRUE)
      [] s = "elevations" -> Get(parameters, "optimize_elevations", TRUE)
      [] s = "slotting" -> Get(parameters, "optimize_slotting", TRUE)
      [] s = "metrics" -> TRUE

Logged(s) == \E i \in 1..Len(log) : log[i] = s

\* the layout carries what rack placement wrote
PlacementWritten ==
    /\ Len(layout.racks) = Len(RackPlacement(NewLayout(facility.id), facility,
                                            equipment).racks)
    /\ Len(layout.aisles) = Len(RackPlacement(NewLayout(facility.id), facility,
                                             equipment).aisles)
    /\ facility.boundary.kind = "polygon" => layout.racks # <<>> /\ layout.aisles # <<>>

\* every aisle carries the width the aisle optimizer returned for it
AisleWidthsWritten ==
    /\ Len(result) = Len(layout.aisles)
    /\ \A i \in 1..Len(layout.aisles) :
          /\ result[i].id = layout.aisles[i].id
          /\ layout.aisles[i].width = result[i].width

\* the first n racks carry the elevations of one optimizer call each, the
\* last of them those of the last call
ElevationsWritten(n) ==
    /\ \A i \in 1..n :
          /\ "beam_elevations" \in DOMAIN layout.racks[i].configuration
          /\ layout.racks[i].configuration.beam_levels
                = Len(layout.racks[i].configuration.beam_elevations) - 1
    /\ n > 0 => layout.racks[n].configuration.beam_elevations = result

\* C2: the enabled stages run in the order rack placement, aisle widths,
\* elevations (one optimizer call per rack), slotting, metrics: the stages
\* entered so far are in that order with none twice and none disabled, a
\* stage is entered only when every enabled stage before it has been entered
\* and has written its results to the layout, and a finished run ends with
\* the metrics stage.
C2_FixedStageOrder ==
    /\ \A i \in 1..Len(log) : \A j \in 1..Len(log) :
          i < j => StageRank(log[i]) < StageRank(log[j])
    /\ \A i \in 1..Len(log) : StageEnabled(log[i])
    /\ \A i \in 1..Len(log) :
          \A s \in {"rack_placement", "aisle_widths", "elevations", "slotting"} :
             StageEnabled(s) /\ StageRank(s) < StageRank(log[i]) => Logged(s)
    /\ Logged("rack_placement") /\ stage # "raised" => PlacementWritten
    /\ Logged("aisle_widths") /\ stage = "elevations" => AisleWidthsWritten
    /\ Logged("elevations") =>
          /\ rackIndex <= Len(layout.racks)
          /\ ElevationsWritten(rackIndex)
          /\ stage \in {"slotting", "metrics", "done"}
                => rackIndex = Len(layout.racks)
    /\ stage = "done" <=> Logged("metrics")
    /\ stage = "done" => Last(log) = "metrics"

\* a run with every stage enabled, four racks, finished
C2_Witness ==
    /\ stage = "done"
    /\ log = <<"rack_placement", "aisle_widths", "elevations", "slotting", "metrics">>
    /\ Len(layout.racks) = 4
    /\ rackIndex = 4

\* C14: a stage of optimize_layout whose option is false is not entered
\* and changes nothing.  With optimize_rack_placement false the racks and
\* aisles stay as _create_initial_layout made them (none), to the end of
\* the call; with optimize_aisle_widths false the step over the aisle
\* stage leaves every aisle as it was; with optimize_elevations false the
\* step over the elevation stage leaves every rack as it was and the loop
\* over the racks is not entered.
C14_SkippedStageChangesNothing ==
    [][ /\ ~Get(parameters, "optimize_rack_placement", TRUE)
             => /\ stage = "placement" => layout' = layout /\ log' = log
                /\ stage' \notin {"create", "placement"}
                      => layout'.racks = <<>> /\ layout'.aisles = <<>>
        /\ ( stage = "aisles" /\ ~Get(parameters, "optimize_aisle_widths", TRUE) )
             => layout' = layout /\ log' = log
        /\ ( stage = "elevations" /\ ~Get(parameters, "optimize_elevations", TRUE) )
             => layout' = layout /\ log' = log /\ stage' = "slotting" ]_vars

\* optimize_layout returned with rack placement run and the two stages
\* after it skipped: the aisles have the width and the racks the
\* configuration rack placement gave them
C14_Witness ==
    /\ stage = "done"
    /\ Get(parameters, "optimize_rack_placement", TRUE)
    /\ ~Get(parameters, "optimize_aisle_widths", TRUE)
    /\ ~Get(parameters, "optimize_elevations", TRUE)
    /\ layout.racks # <<>>
    /\ layout.aisles # <<>>
    /\ \A i \in 1..Len(layout.aisles) :
          layout.aisles[i].width = PlacementAisleWidth(equipment)
    /\ \A i \in 1..Len(layout.racks) :
          "beam_elevations" \notin DOMAIN layout.racks[i].configuration

\* C21: in every state of a run of optimize_layout, whatever the stage
\* options, for equipment with min_aisle_width <= max_aisle_width, the
\* width of every aisle of the layout lies in [equipment.min_aisle_width,
\* equipment.max_aisle_width] and is a whole multiple of the increment
\* (0.5 ft, the default: the engine passes no other), the widths rack
\* placement assigns included.
C21_AisleWidthsInEquipmentRange ==
    equipment.min_aisle_width <= equipment.max_aisle_width
        => \A i \in 1..Len(layout.aisles) :
              /\ equipment.min_aisle_width <= layout.aisles[i].width
              /\ layout.aisles[i].width <= equipment.max_aisle_width
              /\ layout.aisles[i].width % (TicksPerFoot \div 2) = 0

\* C28: after the elevation stage of optimize_layout, whatever the product
\* list (the empty list included), every rack's beam_levels is at least 0
\* and the pallet_positions metric computed from the layout is at least 0.
C28_BeamLevelsAndPositionsNonNegative ==
    ( stage \in {"slotting", "metrics", "done"} /\ Logged("elevations") )
    => /\ \A i \in 1..Len(layout.racks) :
             layout.racks[i].configuration.beam_levels >= 0
       /\ LayoutMetrics(layout).pallet_positions >= 0
       /\ stage = "done" => ret.pallet_positions >= 0

\* C30: every rack footprint rack placement produces lies inside the
\* bounding box of the facility boundary, for every rectangular facility
\* (those smaller than a rack with its aisle included) and every equipment
\* min_aisle_width.
C30_FootprintsInsideFacility ==
    ( facility.boundary.kind = "polygon" /\ Logged("rack_placement") )
    => \A i \in 1..Len(layout.racks) :
          \A k \in 1..Len(layout.racks[i].location) :
              LET point == layout.racks[i].location[k]
              IN  /\ 0 <= point[1]
                  /\ point[1] <= facility.boundary.width * PlacementUnitsPerFoot
                  /\ 0 <= point[2]
                  /\ point[2] <= facility.boundary.depth * PlacementUnitsPerFoot

\* C27: the elevation stage does not depend on the order in which the
\* per-rack calls run and write back.  Whatever the order and the
\* interleaving, layout.racks keeps the racks rack placement made, in their
\* order; a rack is as rack placement made it until the value of its own
\* call is written, and then carries that value as beam_elevations and its
\* length less one as beam_levels, a value the call returns whatever the
\* other racks hold; and the stage ends with racks the sequential loop can
\* end with.
C27_ElevationsIndependentOfOrder ==
    LET placed == PlacementRacks(facility.boundary, equipment)
        returned == ElevationOptimizeResults(products, equipment,
                                             ElevationParams(parameters))
    IN  stage \in {"rack_loop", "slotting", "metrics", "done"}
        => /\ Len(layout.racks) = Len(placed)
           /\ \A i \in 1..Len(placed) :
                 /\ layout.racks[i].id = placed[i].id
                 /\ IF i \in DOMAIN rackCalls /\ rackCalls[i].written
                    THEN /\ layout.racks[i] =
                              SetBeamElevations(placed[i],
                                                rackCalls[i].beam_elevations)
                         /\ rackCalls[i].beam_elevations \in returned
                    ELSE layout.racks[i] = placed[i]
           /\ stage # "rack_loop"
                 => layout.racks \in
                        SequentialRackElevations(placed, products, equipment,
                                                 parameters)

\* the second rack's call began after the first rack's, returned another
\* value and was written back while the first rack waits for its update
C27_Witness ==
    /\ stage = "rack_loop"
    /\ {1, 2} \subseteq DOMAIN rackCalls
    /\ ~rackCalls[1].written
    /\ rackCalls[2].written
    /\ rackCalls[1].beam_elevations # rackCalls[2].beam_elevations
    /\ "beam_elevations" \in DOMAIN layout.racks[2].configuration
    /\ "beam_elevations" \notin DOMAIN layout.racks[1].configuration

----------------------------------------------------------------------------
(* Properties of the optimizers' optimize() *)

\* the value the heuristic of the optimizer called gives for the call's inputs
IsHeuristicResult(r) ==
    CASE optimizer = "aisle" ->
            \E adj \in AdjacentRacksChoices(layout) :
                r = AisleHeuristic(layout, adj, equipment, constraints)
      [] optimizer = "elevation" ->
            r = ElevationHeuristic(ProductHeights(products),
                                   equipment.reach_height, constraints)
      [] optimizer = "slotting" ->
            r = SlottingHeuristic(products, GetAllLocations(layout.racks), constraints)

\* the heuristic of the optimizer called divides by zero on the call's inputs
HeuristicDividesByZero ==
    \/ /\ optimizer = "aisle"
       /\ Get(constraints, "aisle_width_increment", 30) = 0
       /\ layout.aisles # <<>>
    \/ /\ optimizer = "elevation"
       /\ products # <<>>
       /\ MinClearance(constraints) = 0
       /\ MinBeamSpacing(constraints) = 0
       /\ \A i \in 1..Len(products) : products[i].height = 0

C4_WidthWithinBounds ==
    optimizer = "aisle" /\ pc = "returned" =>
        LET min_aisle_width ==
                Get(constraints, "min_aisle_width", equipment.min_aisle_width)
            max_aisle_width ==
                Get(constraints, "max_aisle_width", equipment.max_aisle_width)
        IN  min_aisle_width <= max_aisle_width =>
                \A i \in 1..Len(result) :
                    /\ min_aisle_width <= result[i].width
                    /\ result[i].width <= max_aisle_width

\* C5: every returned aisle width is an integer multiple of
\* aisle_width_increment (default 0.5 ft), on the solver path and on the
\* heuristic path, also when the heuristic clamps its rounded value.
C5_WidthMultipleOfIncrement ==
    optimizer = "aisle" /\ pc = "returned" =>
        \A i \in 1..Len(result) :
            result[i].width % Get(constraints, "aisle_width_increment", 30) = 0

\* C6: every returned elevation sequence starts with exactly 0 and is
\* strictly increasing, for any product list, on both paths.
C6_FirstZeroStrictlyIncreasing ==
    optimizer = "elevation" /\ pc = "returned" =>
        /\ Len(result) >= 1
        /\ result[1] = 0
        /\ \A i \in 1..(Len(result) - 1) : result[i] < result[i + 1]

\* C7: each gap between consecutive returned elevations is at least the
\* maximum product height plus min_clearance, all three taken in one unit
\* (here 1/76200 ft), on both paths.
C7_GapAtLeastHeightPlusClearance ==
    optimizer = "elevation" /\ pc = "returned" =>
        \A i \in 1..(Len(result) - 1) :
            result[i + 1] - result[i] >=
                (SeqMax(ProductHeights(products)) + MinClearance(constraints))
                    * UnitsPerTenthInch

\* C25: min_beam_spacing is a minimum distance between beams: in every
\* returned elevation sequence each pair of consecutive elevations is at
\* least min_beam_spacing apart (both in units of 1/76200 ft), on both
\* paths, also when the tallest product plus min_clearance is less than
\* min_beam_spacing.
C25_GapAtLeastMinBeamSpacing ==
    optimizer = "elevation" /\ pc = "returned" =>
        \A i \in 1..(Len(result) - 1) :
            result[i + 1] - result[i] >=
                MinBeamSpacing(constraints) * UnitsPerTenthInch

C8_AtMostMaxLevels ==
    optimizer = "elevation" /\ pc = "returned" =>
        Len(result) - 1 <= Get(constraints, "max_levels", 4)

\* the heuristic returned max_levels = 2 levels where the reach has room
\* for more
C8_Witness ==
    /\ optimizer = "elevation"
    /\ pc = "returned"
    /\ path = "heuristic"
    /\ constraints.max_levels = 2
    /\ Len(result) - 1 = 2
    /\ Last(result) + (result[2] - result[1])
          <= equipment.reach_height * UnitsPerHundredthFoot

\* C9: the returned assignments are one-to-one: no location_id and no
\* product_id appears in two assignments, on both paths.
C9_AssignmentsOneToOne ==
    optimizer = "slotting" /\ pc = "returned" =>
        \A i \in 1..Len(result) : \A j \in 1..Len(result) :
            i # j => /\ result[i].location_id # result[j].location_id
                     /\ result[i].product_id # result[j].product_id

\* two products assigned while some rack has a location left
C9_Witness ==
    /\ optimizer = "slotting"
    /\ pc = "returned"
    /\ Len(result) = 2
    /\ Len(GetAllLocations(layout.racks)) >= 2

\* the product of an assignment, and its location among the layout's
AssignedProduct(a) ==
    products[CHOOSE p \in 1..Len(products) : products[p].id = a.product_id]
AssignedLocation(a) ==
    LET locations == GetAllLocations(layout.racks)
    IN  locations[CHOOSE l \in 1..Len(locations) :
                     locations[l].id = a.location_id]

\* the product fits as given or with length and width swapped, its height
\* within the location's
FitsInSomeOrientation(product, location) ==
    /\ product.height <= location.dimensions.height
    /\ \/ /\ product.length <= location.dimensions.length
          /\ product.width <= location.dimensions.width
       \/ /\ product.width <= location.dimensions.length
          /\ product.length <= location.dimensions.width

C22_AccessibilityFavoursWidest ==
    ( /\ optimizer = "aisle" /\ pc = "returned" /\ path = "exact"
      /\ Get(constraints, "optimize_for_accessibility", TRUE)
      /\ ~Get(constraints, "optimize_for_density", TRUE) )
    => \A adj \in AdjacentRacksChoices(layout) :
          LET sols == AisleCpSolutions(layout, adj, equipment, constraints)
              Objective(w) == AisleCpObjective(w, layout, equipment, constraints)
          IN  /\ \A w \in AisleCpOptimal(layout, adj, equipment, constraints) :
                    result = AisleCpResult(layout, w)
                        => \A v \in sols : \A i \in 1..Len(layout.aisles) :
                              v[i] <= w[i]
              /\ \A v \in sols, w \in sols :
                    (\A i \in 1..Len(layout.aisles) : v[i] <= w[i])
                        => Objective(w) <= Objective(v)

\* l1's accessibility is strictly lower than l2's
LessAccessible(l1, l2) ==
    l1.properties.accessibility.num * l2.properties.accessibility.den
        < l2.properties.accessibility.num * l1.properties.accessibility.den

\* C23: in an optimal assignment of the exact slotting model (the default
\* weights 0.7 and 0.3, every product fitting every location, at least as
\* many locations as products), no product of class A is at a location of
\* strictly lower accessibility than the location of a product of class B
\* or C.
C23_ClassAAtMostAccessible ==
    LET locations == GetAllLocations(layout.racks)
    IN  ( /\ optimizer = "slotting" /\ pc = "returned" /\ path = "exact"
          /\ products # <<>>
          /\ Len(locations) >= Len(products)
          /\ "velocity_weighting" \notin DOMAIN constraints
          /\ "accessibility_weighting" \notin DOMAIN constraints
          /\ \A p \in 1..Len(products), l \in 1..Len(locations) :
                ProductFitsLocation(products[p], locations[l]) )
        => \A x \in SlottingMipOptimal(products, locations, constraints) :
              result = SlottingMipResult(x, products, locations, 1)
                  => \A pa \in x, pb \in x :
                        ( /\ products[pa[1]].velocity_class = "A"
                          /\ products[pb[1]].velocity_class \in {"B", "C"} )
                            => ~LessAccessible(locations[pa[2]],
                                               locations[pb[2]])

\* C24: every location the slotting optimizer enumerates carries an
\* accessibility in [0, 1], whatever the rack type, the bay and the level
\* (racks of more than 5 levels included).
C24_AccessibilityInUnitInterval ==
    ( optimizer = "slotting" /\ pc \in {"returned", "fallback"} )
    => LET locations == GetAllLocations(layout.racks)
       IN  \A l \in 1..Len(locations) :
              LET accessibility == locations[l].properties.accessibility
              IN  /\ 0 <= accessibility.num
                  /\ accessibility.num <= accessibility.den

\* C16: what a heuristic fallback returns is determined by the layout, the
\* products, the equipment and the options: every run of the heuristic on
\* the inputs of this call returns the result this call returned.
C16_HeuristicDeterministic ==
    ( pc = "returned" /\ path = "heuristic" ) =>
        /\ optimizer = "aisle" =>
              \A adj \in AdjacentRacksChoices(layout) :
                 AisleHeuristic(layout, adj, equipment, constraints) = result
        /\ optimizer = "elevation" =>
              ElevationHeuristic(ProductHeights(products),
                                 equipment.reach_height, constraints) = result
        /\ optimizer = "slotting" =>
              SlottingHeuristic(products, GetAllLocations(layout.racks),
                                constraints) = result

\* the aisle heuristic has returned for scenario A
ScenarioAReturned ==
    /\ optimizer = "aisle"
    /\ layout = ScenarioALayout
    /\ equipment = ScenarioAEquipment
    /\ constraints \in {EmptyDict, ScenarioAConstraints}
    /\ pc = "returned"
    /\ path = "heuristic"

\* C17 as stated: in scenario A (bounds of 12 and 14 ft, increment 0.5 ft,
\* default options, one main aisle, no rack) the aisle heuristic returns a
\* width of exactly 13.0 ft for the aisle.
C17_ScenarioAWidthThirteen ==
    ScenarioAReturned => result = <<[id |-> 1, width |-> 13 * TicksPerFoot]>>

\* C17 amended: in scenario A the aisle heuristic returns a width of
\* exactly 13.5 ft for the aisle (12 + 2 for a main aisle, - 0.5 for
\* density, a multiple of the increment already and inside the bounds).
C17_ScenarioAWidthThirteenAndAHalf ==
    ScenarioAReturned =>
        result = <<[id |-> 1, width |-> 13 * TicksPerFoot + TicksPerFoot \div 2]>>

\* scenario A has been run, the increment of 0.5 ft given, and the
\* heuristic has returned one width
C17_Witness ==
    /\ ScenarioAReturned
    /\ constraints = ScenarioAConstraints
    /\ Len(result) = 1

\* C18: in scenario B (products 48, 36 and 24 in high, clearance 6 in,
\* spacing 12 in, 4 levels, reach 288 in) the elevation heuristic returns
\* the five elevations 0, 54, 108, 162 and 216 in.
C18_ScenarioBElevations ==
    ( /\ optimizer = "elevation"
      /\ products = ScenarioBProducts
      /\ equipment \in ScenarioBEquipment
      /\ constraints = ScenarioBConstraints
      /\ pc = "returned"
      /\ path = "heuristic" )
    => result = [i \in 1..5 |-> (i - 1) * 540 * UnitsPerTenthInch]

\* C19: in scenario C (products of classes A, B and C, two locations that
\* every product fits) the slotting heuristic returns two assignments: the
\* class-A product at the location of highest accessibility and the
\* class-B product at the other one; the class-C product has none.
C19_ScenarioCAssignments ==
    ( /\ optimizer = "slotting"
      /\ layout = ScenarioCLayout
      /\ products = ScenarioCProducts
      /\ pc = "returned"
      /\ path = "heuristic" )
    => LET locations == GetAllLocations(layout.racks)
           best == CHOOSE l \in 1..2 : LocationKeyGreater(locations[l],
                                                          locations[3 - l])
           product_of(c) == CHOOSE p \in 1..3 : products[p].velocity_class = c
       IN  /\ Len(result) = 2
           /\ { result[i] : i \in 1..2 }
                = { [product_id |-> products[product_of("A")].id,
                     location_id |-> locations[best].id, quantity |-> 1],
                    [product_id |-> products[product_of("B")].id,
                     location_id |-> locations[3 - best].id, quantity |-> 1] }

\* the optimizer called has nothing to work on
NothingToOptimize ==
    \/ optimizer = "aisle" /\ layout.aisles = <<>>
    \/ optimizer = "slotting"
          /\ (GetAllLocations(layout.racks) = <<>> \/ products = <<>>)

\* C13: AisleWidthOptimizer.optimize on a layout without aisles, and
\* SlottingOptimizer.optimize on a layout without candidate locations or
\* with an empty product list, never raise, and what they return is the
\* empty list.
C13_EmptyResultInsteadOfRaising ==
    NothingToOptimize => /\ pc # "raised"
                         /\ pc = "returned" => result = <<>>

\* the slotting optimizer returned for products and racks that yield no
\* location
C13_Witness ==
    /\ optimizer = "slotting"
    /\ pc = "returned"
    /\ products # <<>>
    /\ layout.racks # <<>>
    /\ GetAllLocations(layout.racks) = <<>>

----------------------------------------------------------------------------
(* Properties of the engine's entry points *)

\* C11: whatever entry points have been called on a layout, every rack
\* whose configuration holds beam_elevations also holds beam_levels, equal
\* to len(beam_elevations) - 1.
C11_BeamLevelsMatchElevations ==
    \A i \in 1..Len(layout.racks) :
        LET configuration == layout.racks[i].configuration
        IN  "beam_elevations" \in DOMAIN configuration =>
              /\ "beam_levels" \in DOMAIN configuration
              /\ configuration.beam_levels
                    = Len(configuration.beam_elevations) - 1

\* C29: the entry point optimize_slotting returns a record {layout_id,
\* assignments, metrics} and does not raise, whatever the layout and the
\* product list (an empty product list and a layout without racks
\* included).
C29_OptimizeSlottingReturns ==
    call.op = "optimize_slotting"
        => /\ call.outcome = "returned"
           /\ DOMAIN ret = {"layout_id", "assignments", "metrics"}

\* C12: a call of optimize_rack_elevations with a rack_id that no rack of
\* the layout carries raises, calls no optimizer, and leaves every rack
\* and every aisle of the layout as it was.
C12_UnknownRackIdRaises ==
    [][ ( /\ calls' = calls + 1
          /\ call'.op = "optimize_rack_elevations"
          /\ \A i \in 1..Len(layout.racks) : layout.racks[i].id # call'.rack_id )
        => /\ call'.outcome = "raised"
           /\ call'.ran = "none"
           /\ layout'.racks = layout.racks
           /\ layout'.aisles = layout.aisles ]_vars

\* an unknown rack_id was given for a layout that has racks, and the call
\* raised
C12_Witness ==
    /\ call.op = "optimize_rack_elevations"
    /\ call.rack_id = UnknownRackId
    /\ call.outcome = "raised"
    /\ layout.racks # <<>>
    /\ layout.aisles # <<>>

\* C15: a call of evaluate_layout changes nothing in the layout, and when
\* it repeats the call before it (evaluate_layout with the same products,
\* nothing in between) it returns the same metrics.
C15_EvaluateLayoutIdempotent ==
    [][ ( calls' = calls + 1 /\ call'.op = "evaluate_layout" )
        => /\ layout' = layout
           /\ ( call.op = "evaluate_layout" /\ call.products = call'.products )
                 => ret' = ret ]_vars

\* evaluate_layout was called twice in a row with the same non-empty
\* product list on a layout with racks and an aisle
C15_Witness ==
    /\ call.op = "evaluate_layout"
    /\ call.repeats
    /\ call.products # <<>>
    /\ layout.racks # <<>>
    /\ layout.aisles # <<>>
    /\ "slotting_efficiency" \in DOMAIN ret

\* twice the multiplier of a rack type: 1 selective, 4 drive-in, 3
\* push-back, 6 pallet-flow, 1.5 mobile, 1 any other type
MultiplierDoubled(rack_type) ==
    CASE rack_type = "selective" -> 2
      [] rack_type = "drive-in" -> 8
      [] rack_type = "push-back" -> 6
      [] rack_type = "pallet-flow" -> 12
      [] rack_type = "mobile" -> 3
      [] OTHER -> 2

RECURSIVE SumOfRacksDoubled(_, _)
\* twice the sum over racks 1 .. n of bays x beam_levels x multiplier, with
\* beam_levels the configured value, 3 when the configuration has none
SumOfRacksDoubled(racks, n) ==
    IF n = 0 THEN 0
    ELSE SumOfRacksDoubled(racks, n - 1)
         + racks[n].bays
           * (IF "beam_levels" \in DOMAIN racks[n].configuration
              THEN racks[n].configuration.beam_levels ELSE 3)
           * MultiplierDoubled(racks[n].rack_type_id)

====
